---- MODULE Spec2Model ----
(***************************************************************************)
(* State-machine model of SessionManager (mcp-ssh/src/session-manager.ts): *)
(* the alias registry, the ssh2 clients it creates, the automatic          *)
(* reconnect timers, and the bounded accumulation of exec output.          *)
(***************************************************************************)
EXTENDS Integers, Sequences, FiniteSets, TLC

(* ------------------------------ bounds --------------------------------- *)
\* number of ssh2 Clients that exist at once without having closed
MaxLive == 2
\* number of reconnect timers pending at once for one alias
MaxTimers == 2
\* largest value of the wall clock (Date.now())
MaxClock == 1
\* bytes one exec stream (stdout or stderr) delivers in all
MaxData == 2
\* bytes in one data event
MaxChunk == 2
\* largest maxOutputSize an exec caller, or bufferSize a ptyStart caller,
\* passes
MaxLimit == 1
\* number of ptyStart calls that get as far as the transport
MaxPty == 1
\* entries in the environment of a configuration or of a call
MaxEnv == 1
\* number of forwardLocal and forwardRemote calls that get as far as the
\* local socket or the transport
MaxForwards == 2
\* inbound connections the listening sockets of local forwards accept
MaxConns == 1
\* ssh_quick_exec calls
MaxQuick == 2

(* -------------------------- program constants -------------------------- *)
\* a retry limit one too large
maxReconnectAttemptsOffByOne == 3 + 1
\* private maxReconnectAttempts = 3
maxReconnectAttempts == 3
\* options.maxOutputSize || 10 * 1024 * 1024
defaultMaxOutputSize == 10485760
\* private defaultPtyBufferSize = 1024 * 1024
defaultPtyBufferSize == 1048576

\* Connection configurations a caller may pass: two for the same alias.
Configs ==
    { [alias |-> "srv", host |-> "h1", username |-> "u", port |-> 22],
      [alias |-> "srv", host |-> "h2", username |-> "u", port |-> 22] }

\* generateAlias: config.alias || `${username}@${host}:${port}`
generateAlias(config) ==
    IF config.alias # "" THEN config.alias
    ELSE config.username \o "@" \o config.host \o ":" \o ToString(config.port)

\* the aliases callers name: those of the configurations and one that is
\* never connected
Aliases == { generateAlias(c) : c \in Configs } \cup {"missing-alias"}

\* What a step hands to a caller (result), whether the call itself or a
\* later event delivered it (via), and what it asks of a transport (request).
NoRet == [op |-> "none", alias |-> "", result |-> "none", via |-> "none",
          request |-> "none"]

VARIABLES
    sessions,    \* Map<string, SSHSession>: alias -> entry
    clients,     \* ssh2 Clients that have not closed yet: id -> transport
    pending,     \* connect() calls awaiting ready or error: client id -> closure
    timers,      \* alias -> number of pending setTimeout(reconnect, 5000)
    persisted,   \* contents of the sessions.json snapshot
    now,         \* Date.now()
    scheduled,   \* alias -> reconnect timers scheduled since the last ready
    ret,         \* outcome of the last step (NoRet if it delivered nothing)
    exec,        \* the exec() invocation in progress: its closure variables
    sent,        \* what the remote command did: bytes written, exit code
    ptySessions, \* Map<string, PtySession>: ptyId -> entry
    ptyIdCounter,\* this.ptyIdCounter
    ptyStarts,   \* ptyStart() calls awaiting the exec callback: ptyId -> closure
    ptyLog,      \* ptyId -> bytes its channel delivered while it was active
    batch,       \* the ssh_exec_batch call in progress: its local variables
    par,         \* the ssh_exec_parallel call in progress: its local variables
    forwardSessions,  \* Map<string, ForwardSession> in insertion order
    forwardIdCounter, \* this.forwardIdCounter
    forwardStarts,    \* forwards awaiting listen or forwardIn: id -> closure
    tcp,         \* client id -> tcpDispatcher of its session, its listeners
    fwdConns,    \* connections the sockets of local forwards have accepted
    quick        \* the ssh_quick_exec calls: their local variables

conn == <<clients, pending, timers, persisted, scheduled>>
\* the PTY table and the tool calls in progress
tools == <<ptySessions, ptyIdCounter, ptyStarts, ptyLog, batch, par>>
\* the forward table, the dispatchers and the forwarded connections
fwd == <<forwardSessions, forwardIdCounter, forwardStarts, tcp, fwdConns>>
aux == <<tools, fwd, quick>>
vars == <<sessions, clients, pending, timers, persisted, now, scheduled, ret,
          exec, sent, aux>>

NoExec == [state |-> "idle"]
NoBatch == [state |-> "idle"]
NoPar == [state |-> "idle", aliases |-> <<>>, command |-> <<>>,
          calls |-> <<>>, results |-> <<>>]

\* the PTY table and the tool calls of a newly constructed server
InitAux ==
    /\ ptySessions = <<>>
    /\ ptyIdCounter = 0
    /\ ptyStarts = <<>>
    /\ ptyLog = <<>>
    /\ batch = NoBatch
    /\ par = NoPar
    /\ forwardSessions = <<>>
    /\ forwardIdCounter = 0
    /\ forwardStarts = <<>>
    /\ tcp = <<>>
    /\ fwdConns = <<>>
    /\ quick = <<>>

Init ==
    /\ sessions = <<>>
    /\ clients = <<>>
    /\ pending = <<>>
    /\ timers = [a \in Aliases |-> 0]
    /\ persisted = <<>>
    /\ now = 0
    /\ scheduled = [a \in Aliases |-> 0]
    /\ ret = NoRet
    /\ exec = NoExec
    /\ sent = [out |-> <<>>, err |-> <<>>, code |-> "none"]
    /\ InitAux

(* ------------------------------ helpers -------------------------------- *)
\* Map.set / Map.delete on a function used as a map
MapSet(m, k, v) == [x \in DOMAIN m \cup {k} |-> IF x = k THEN v ELSE m[x]]
MapDelete(m, k) == [x \in DOMAIN m \ {k} |-> m[x]]

\* Identity of a newly constructed Client.  A Client that has closed emits
\* nothing more, so its identity is given to a later Client once no registry
\* entry holds it any longer.
ClientIds == 1..(MaxLive + Cardinality(Aliases) + MaxForwards)
InUse(ss, cs) ==
    DOMAIN cs \cup { ss[a].client : a \in DOMAIN ss }
    \cup DOMAIN tcp
    \cup { forwardStarts[id].client : id \in DOMAIN forwardStarts }
    \cup { forwardSessions[i].server.client :
             i \in { j \in DOMAIN forwardSessions :
                        forwardSessions[j].type = "local" } }
    \cup { fwdConns[k].client : k \in DOMAIN fwdConns }
    \cup { quick[k].client : k \in DOMAIN quick }
    \cup { quick[k].on : k \in DOMAIN quick }
NewClient(ss, cs) ==
    CHOOSE i \in ClientIds \ InUse(ss, cs) :
        \A j \in ClientIds \ InUse(ss, cs) : i <= j

\* a liveness test that never answers yes
isAliveNever(session) == FALSE
\* isAlive(session)
isAlive(session) == session.connected

\* an end() that is never issued
clientEndSkipped(cs, i) == cs
\* client.end(): a transport that is up is asked to shut down and its "close"
\* follows later; on a transport already failing or closed it does nothing
clientEnd(cs, i) ==
    IF i \in DOMAIN cs /\ cs[i].state \in {"connecting", "ready"}
    THEN [cs EXCEPT ![i].state = "ended"]
    ELSE cs

\* a snapshot that stores the whole configuration of each session
persistSessionsWhole(ss) ==
    [a \in DOMAIN ss |->
        [x \in DOMAIN ss[a].config \cup {"connectedAt"} |->
            IF x = "connectedAt" THEN ss[a].connectedAt
            ELSE ss[a].config[x]]]
\* persistSessions(): the snapshot written for a registry ss
persistSessions(ss) ==
    [a \in DOMAIN ss |->
        [host |-> ss[a].config.host, port |-> ss[a].config.port,
         username |-> ss[a].config.username,
         connectedAt |-> ss[a].connectedAt,
         env |-> IF "env" \in DOMAIN ss[a].config THEN ss[a].config.env
                 ELSE <<>>]]

\* a timer-started reconnect whose outcome escapes to a caller
DeliverUncaught(caller, alias, result, via) ==
    [op |-> IF caller = "timer" THEN "reconnect" ELSE caller, alias |-> alias,
     result |-> result, via |-> via, request |-> "none"]
\* what a call hands back to its caller; the reconnect started by a timer
\* has no caller (.catch(() => {}))
Deliver(caller, alias, result, via) ==
    IF caller = "timer" THEN NoRet
    ELSE [op |-> caller, alias |-> alias, result |-> result, via |-> via,
          request |-> IF result = "pending" THEN "connect" ELSE "none"]

\* the part of connect() up to the returned promise, run on registry ss and
\* client map cs: either the alias is alive (touch and resolve) or a new
\* Client is constructed, given its handlers and asked to connect.
connectBody(ss, cs, config, caller) ==
    LET alias == generateAlias(config) IN
    IF alias \in DOMAIN ss /\ isAlive(ss[alias])
    THEN /\ sessions' = [ss EXCEPT ![alias].lastUsedAt = now]
         /\ clients' = cs
         /\ ret' = Deliver(caller, alias, "resolved", "call")
         /\ UNCHANGED pending
    ELSE /\ Cardinality(DOMAIN cs) < MaxLive
         /\ sessions' = ss
         /\ clients' = MapSet(cs, NewClient(ss, cs),
                              [alias |-> alias, state |-> "connecting"])
         /\ pending' = MapSet(pending, NewClient(ss, cs),
                              [caller |-> caller, config |-> config])
         /\ ret' = Deliver(caller, alias, "pending", "call")

(* --------------------------- public operations ------------------------- *)
Connect(config) ==
    /\ connectBody(sessions, clients, config, "connect")
    /\ UNCHANGED <<timers, persisted, now, scheduled, exec, sent>>
    /\ UNCHANGED aux

\* the body of reconnect() for an alias, on behalf of caller
reconnectBody(alias, caller) ==
    IF alias \notin DOMAIN sessions
    THEN /\ ret' = Deliver(caller, alias, "NotFound", "call")
         /\ UNCHANGED <<sessions, clients, pending>>
    ELSE connectBody(sessions, clientEnd(clients, sessions[alias].client),
                     sessions[alias].config, caller)

Reconnect(alias) ==
    /\ reconnectBody(alias, "reconnect")
    /\ UNCHANGED <<timers, persisted, now, scheduled, exec, sent>>
    /\ UNCHANGED aux

\* the setTimeout callback of the close handler: reconnect(alias).catch(()=>{})
TimerFire(alias) ==
    /\ timers[alias] > 0
    /\ timers' = [timers EXCEPT ![alias] = @ - 1]
    /\ reconnectBody(alias, "timer")
    /\ UNCHANGED <<persisted, now, scheduled, exec, sent>>
    /\ UNCHANGED aux

Disconnect(alias) ==
    /\ IF alias \in DOMAIN sessions
       THEN /\ clients' = clientEnd(clients, sessions[alias].client)
            /\ sessions' = MapDelete(sessions, alias)
            /\ persisted' = persistSessions(sessions')
            /\ ret' = Deliver("disconnect", alias, "true", "call")
       ELSE /\ ret' = Deliver("disconnect", alias, "false", "call")
            /\ UNCHANGED <<sessions, clients, persisted>>
    /\ UNCHANGED <<pending, timers, now, scheduled, exec, sent>>
    /\ UNCHANGED aux

\* a getSession that touches lastUsedAt before it tests the entry
getSessionTouchAlways(ss, alias) ==
    IF alias \in DOMAIN ss THEN [ss EXCEPT ![alias].lastUsedAt = now] ELSE ss
\* getSession(alias): its outcome, and the registry after it
getSessionResult(ss, alias) ==
    IF alias \notin DOMAIN ss THEN "NotFound"
    ELSE IF ~isAlive(ss[alias]) THEN "Disconnected"
    ELSE "ok"

getSession(ss, alias) ==
    IF getSessionResult(ss, alias) = "ok"
    THEN [ss EXCEPT ![alias].lastUsedAt = now]
    ELSE ss

\* The start of exec, ptyStart, forwardLocal, forwardRemote and getSftp:
\* getSession(alias) throws, or touches the entry and the operation goes on
\* to ask the transport (or, for forwardLocal, the local socket) for request.
gatedRet(op, alias, request) ==
    LET r == getSessionResult(sessions, alias) IN
    [op |-> op, alias |-> alias,
     result |-> IF r = "ok" THEN "pending" ELSE r, via |-> "call",
     request |-> IF r = "ok" THEN request ELSE "none"]

gatedCall(op, alias, request) ==
    /\ sessions' = getSession(sessions, alias)
    /\ ret' = gatedRet(op, alias, request)

(* ----------------------------- port forwards --------------------------- *)
\* generateForwardId(): `fwd_${++this.forwardIdCounter}_${Date.now()}`
generateForwardId(counter, t) == <<counter + 1, t>>

\* the forward with identifier id in registry fs, as the set of its places
\* (empty if there is none)
ForwardAt(fs, id) == { i \in DOMAIN fs : fs[i].id = id }
\* Map.delete of the entry at place i
RemoveAt(fs, i) == SubSeq(fs, 1, i - 1) \o SubSeq(fs, i + 1, Len(fs))

\* what a forward operation or callback hands back
ForwardRet(op, alias, id, result, via, request) ==
    [op |-> op, alias |-> alias, result |-> result, via |-> via,
     request |-> request, forwardId |-> id]

\* forwardLocal(alias, localPort, remoteHost, remotePort, localHost) up to
\* server.listen(localPort, localHost, callback)
ForwardLocal(alias, localPort, remoteHost, remotePort, localHost) ==
    /\ gatedCall("forwardLocal", alias, "listen")
    /\ IF getSessionResult(sessions, alias) = "ok"
       THEN /\ forwardIdCounter < MaxForwards
            /\ forwardIdCounter' = forwardIdCounter + 1
            /\ forwardStarts' =
                 MapSet(forwardStarts,
                        generateForwardId(forwardIdCounter, now),
                        [alias |-> alias, type |-> "local",
                         client |-> sessions[alias].client,
                         localHost |-> localHost, localPort |-> localPort,
                         remoteHost |-> remoteHost,
                         remotePort |-> remotePort])
       ELSE UNCHANGED <<forwardIdCounter, forwardStarts>>
    /\ UNCHANGED <<conn, now, exec, sent, tools, quick,
                   forwardSessions, tcp,
                   fwdConns>>

\* server.on('error') before the socket listens: the call is rejected
ForwardListenError(id) ==
    /\ id \in DOMAIN forwardStarts /\ forwardStarts[id].type = "local"
    /\ forwardStarts' = MapDelete(forwardStarts, id)
    /\ ret' = ForwardRet("forwardLocal", forwardStarts[id].alias, id,
                         "ForwardBindFailure", "callback", "none")
    /\ UNCHANGED <<sessions, conn, now, exec, sent, tools, quick,
                   forwardSessions,
                   forwardIdCounter, tcp, fwdConns>>

\* a listen callback that registers nothing
forwardListeningUnregistered(fs, id, start, t) == fs
\* the registry after the callback of server.listen: the entry of the local
\* forward, with the server whose connection handler holds the session
forwardListening(fs, id, start, t) ==
    Append(fs, [id |-> id, alias |-> start.alias, type |-> "local",
                localHost |-> start.localHost,
                localPort |-> start.localPort,
                remoteHost |-> start.remoteHost,
                remotePort |-> start.remotePort,
                server |-> [client |-> start.client],
                createdAt |-> t, active |-> TRUE])

\* the callback of server.listen
ForwardListening(id) ==
    /\ id \in DOMAIN forwardStarts /\ forwardStarts[id].type = "local"
    /\ forwardSessions' =
         forwardListening(forwardSessions, id, forwardStarts[id], now)
    /\ forwardStarts' = MapDelete(forwardStarts, id)
    /\ ret' = ForwardRet("forwardLocal", forwardStarts[id].alias, id,
                         "resolved", "callback", "none")
    /\ UNCHANGED <<sessions, conn, now, exec, sent, tools, quick,
                   forwardIdCounter,
                   tcp, fwdConns>>

\* client.forwardOut(srcIP, srcPort, dstIP, dstPort, callback): the
\* destination of the direct channel it asks for
forwardOut(srcIP, srcPort, dstIP, dstPort) == <<dstIP, dstPort>>

\* the connection handler of the server of local forward id: one forwardOut
\* on the client of the session forwardLocal looked up
LocalConnection(id) ==
    /\ Len(fwdConns) < MaxConns
    /\ \E i \in ForwardAt(forwardSessions, id) :
          /\ forwardSessions[i].type = "local"
          /\ fwdConns' =
               Append(fwdConns,
                      [forward |-> id,
                       client |-> forwardSessions[i].server.client,
                       requests |->
                           <<forwardOut("127.0.0.1", 0,
                                        forwardSessions[i].remoteHost,
                                        forwardSessions[i].remotePort)>>,
                       state |-> "requested"])
          /\ ret' = ForwardRet("connection", forwardSessions[i].alias, id,
                               "pending", "event", "forwardOut")
    /\ UNCHANGED <<sessions, conn, now, exec, sent, tools, quick,
                   forwardSessions,
                   forwardIdCounter, forwardStarts, tcp>>

\* a transport that can still deliver the answer to a request
Answers(c) == c \in DOMAIN clients /\ clients[c].state \in {"ready", "ended"}

\* the callback of forwardOut for connection k: socket.end() on err, else
\* socket.pipe(stream).pipe(socket)
ForwardOutDone(k, ok) ==
    /\ k \in DOMAIN fwdConns /\ fwdConns[k].state = "requested"
    /\ ok => Answers(fwdConns[k].client)
    /\ fwdConns' = [fwdConns EXCEPT
                      ![k].state = IF ok THEN "spliced" ELSE "closed"]
    /\ ret' = NoRet
    /\ UNCHANGED <<sessions, conn, now, exec, sent, tools, quick,
                   forwardSessions,
                   forwardIdCounter, forwardStarts, tcp>>

\* forwardRemote(alias, remotePort, localHost, localPort, remoteHost) up to
\* session.client.forwardIn(remoteHost, remotePort, callback)
ForwardRemote(alias, remotePort, localHost, localPort, remoteHost) ==
    /\ gatedCall("forwardRemote", alias, "forwardIn")
    /\ IF getSessionResult(sessions, alias) = "ok"
       THEN /\ forwardIdCounter < MaxForwards
            /\ forwardIdCounter' = forwardIdCounter + 1
            /\ forwardStarts' =
                 MapSet(forwardStarts,
                        generateForwardId(forwardIdCounter, now),
                        [alias |-> alias, type |-> "remote",
                         client |-> sessions[alias].client,
                         localHost |-> localHost, localPort |-> localPort,
                         remoteHost |-> remoteHost,
                         remotePort |-> remotePort])
       ELSE UNCHANGED <<forwardIdCounter, forwardStarts>>
    /\ UNCHANGED <<conn, now, exec, sent, tools, quick,
                   forwardSessions, tcp,
                   fwdConns>>

\* session.tcpDispatcher and the 'tcp connection' listeners of its client;
\* a dispatcher is known by the alias its closure holds
NoTcp == [tcpDispatcher |-> <<>>, listeners |-> <<>>]
TcpOf(c) == IF c \in DOMAIN tcp THEN tcp[c] ELSE NoTcp
TcpPut(c, t) == IF t = NoTcp THEN MapDelete(tcp, c) ELSE MapSet(tcp, c, t)

\* a dispatcher installed without looking for the one already there
ensureTcpDispatcherAgain(t, alias) ==
    [tcpDispatcher |-> <<alias>>, listeners |-> Append(t.listeners, alias)]
\* ensureTcpDispatcher(session, alias), on the dispatcher state t of session
ensureTcpDispatcher(t, alias) ==
    IF t.tcpDispatcher # <<>> THEN t
    ELSE [tcpDispatcher |-> <<alias>>,
          listeners |-> Append(t.listeners, alias)]

\* removeTcpDispatcherIfEmpty(session, alias), with registry fs
removeTcpDispatcherIfEmpty(t, fs, alias) ==
    IF t.tcpDispatcher = <<>> THEN t
    ELSE IF \E i \in DOMAIN fs : /\ fs[i].type = "remote"
                                 /\ fs[i].alias = alias
                                 /\ fs[i].active
    THEN t
    ELSE [tcpDispatcher |-> <<>>,
          listeners |-> SubSeq(t.listeners, 1, Len(t.listeners) - 1)]

\* the callback of forwardIn with err: the call is rejected
ForwardInFailed(id) ==
    /\ id \in DOMAIN forwardStarts /\ forwardStarts[id].type = "remote"
    /\ forwardStarts' = MapDelete(forwardStarts, id)
    /\ ret' = ForwardRet("forwardRemote", forwardStarts[id].alias, id,
                         "ForwardBindFailure", "callback", "none")
    /\ UNCHANGED <<sessions, conn, now, exec, sent, tools, quick,
                   forwardSessions,
                   forwardIdCounter, tcp, fwdConns>>

\* the callback of forwardIn without err: the forward is recorded and the
\* session forwardRemote looked up gets its dispatcher
ForwardInDone(id) ==
    /\ id \in DOMAIN forwardStarts /\ forwardStarts[id].type = "remote"
    /\ Answers(forwardStarts[id].client)
    /\ LET start == forwardStarts[id] IN
       /\ forwardSessions' =
            Append(forwardSessions,
                   [id |-> id, alias |-> start.alias, type |-> "remote",
                    localHost |-> start.localHost,
                    localPort |-> start.localPort,
                    remoteHost |-> start.remoteHost,
                    remotePort |-> start.remotePort,
                    createdAt |-> now, active |-> TRUE])
       /\ tcp' = TcpPut(start.client,
                        ensureTcpDispatcher(TcpOf(start.client), start.alias))
       /\ ret' = ForwardRet("forwardRemote", start.alias, id, "resolved",
                            "callback", "none")
    /\ forwardStarts' = MapDelete(forwardStarts, id)
    /\ UNCHANGED <<sessions, conn, now, exec, sent, tools, quick,
                   forwardIdCounter,
                   fwdConns>>

\* net.createConnection(port, host): where the socket connects to
createConnection(port, host) == <<host, port>>

\* a dispatcher that looks at the destination only
dispatchAnyAlias(fs, alias, info) ==
    LET hits == { i \in DOMAIN fs :
                    /\ fs[i].type = "remote" /\ fs[i].active
                    /\ fs[i].remoteHost = info[1]
                    /\ fs[i].remotePort = info[2] }
    IN IF hits = {} THEN [result |-> "rejected", connect |-> <<>>]
       ELSE LET i == CHOOSE j \in hits : \A k \in hits : j <= k
            IN [result |-> "accepted",
                connect |-> createConnection(fs[i].localPort,
                                             fs[i].localHost)]
\* the dispatcher of ensureTcpDispatcher for alias, on an inbound
\* connection to info = <<destIP, destPort>>: accept() and a local socket
\* for the first matching forward, rejectConn() if there is none
dispatch(fs, alias, info) ==
    LET hits == { i \in DOMAIN fs :
                    /\ fs[i].type = "remote" /\ fs[i].active
                    /\ fs[i].alias = alias
                    /\ fs[i].remoteHost = info[1]
                    /\ fs[i].remotePort = info[2] }
    IN IF hits = {} THEN [result |-> "rejected", connect |-> <<>>]
       ELSE LET i == CHOOSE j \in hits : \A k \in hits : j <= k
            IN [result |-> "accepted",
                connect |-> createConnection(fs[i].localPort,
                                             fs[i].localHost)]

\* client c emits 'tcp connection' for destination info: every listener on
\* it runs
TcpConnection(c, info) ==
    /\ c \in DOMAIN clients /\ clients[c].state = "ready"
    /\ TcpOf(c).listeners # <<>>
    /\ ret' = [op |-> "tcp connection", alias |-> clients[c].alias,
               result |-> "none", via |-> "event", request |-> "none",
               client |-> c, info |-> info,
               outcomes |-> [k \in DOMAIN TcpOf(c).listeners |->
                               dispatch(forwardSessions,
                                        TcpOf(c).listeners[k], info)]]
    /\ UNCHANGED <<sessions, conn, now, exec, sent, aux>>

\* a forwardClose that keeps a remote forward whose session is gone
ForwardCloseIfSession(id) ==
    /\ IF \/ ForwardAt(forwardSessions, id) = {}
          \/ \E i \in ForwardAt(forwardSessions, id) :
                /\ forwardSessions[i].type = "remote"
                /\ forwardSessions[i].alias \notin DOMAIN sessions
       THEN /\ ret' = ForwardRet("forwardClose", "", id, "false", "call",
                                 "none")
            /\ UNCHANGED <<forwardSessions, tcp>>
       ELSE LET i == CHOOSE j \in ForwardAt(forwardSessions, id) : TRUE
                f == forwardSessions[i]
                closing == [forwardSessions EXCEPT ![i].active = FALSE]
            IN /\ tcp' =
                    IF f.type = "remote"
                    THEN TcpPut(sessions[f.alias].client,
                                removeTcpDispatcherIfEmpty(
                                    TcpOf(sessions[f.alias].client),
                                    closing, f.alias))
                    ELSE tcp
               /\ forwardSessions' = RemoveAt(forwardSessions, i)
               /\ ret' = ForwardRet("forwardClose", f.alias, id, "true",
                                    "call",
                                    IF f.type = "local" THEN "server.close"
                                    ELSE "unforwardIn")
    /\ UNCHANGED <<sessions, conn, now, exec, sent, tools, quick,
                   forwardIdCounter,
                   forwardStarts, fwdConns>>

\* forwardClose(forwardId)
ForwardClose(id) ==
    /\ IF ForwardAt(forwardSessions, id) = {}
       THEN /\ ret' = ForwardRet("forwardClose", "", id, "false", "call",
                                 "none")
            /\ UNCHANGED <<forwardSessions, tcp>>
       ELSE LET i == CHOOSE j \in ForwardAt(forwardSessions, id) : TRUE
                f == forwardSessions[i]
                closing == [forwardSessions EXCEPT ![i].active = FALSE]
            IN /\ tcp' =
                    IF f.type = "remote" /\ f.alias \in DOMAIN sessions
                    THEN TcpPut(sessions[f.alias].client,
                                removeTcpDispatcherIfEmpty(
                                    TcpOf(sessions[f.alias].client),
                                    closing, f.alias))
                    ELSE tcp
               /\ forwardSessions' = RemoveAt(forwardSessions, i)
               /\ ret' = ForwardRet("forwardClose", f.alias, id, "true",
                                    "call",
                                    IF f.type = "local" THEN "server.close"
                                    ELSE IF f.alias \in DOMAIN sessions
                                    THEN "unforwardIn" ELSE "none")
    /\ UNCHANGED <<sessions, conn, now, exec, sent, tools, quick,
                   forwardIdCounter,
                   forwardStarts, fwdConns>>

\* forwardList(): a snapshot of the registry fs
forwardList(fs) ==
    [i \in DOMAIN fs |->
        [id |-> fs[i].id, alias |-> fs[i].alias, type |-> fs[i].type,
         localHost |-> fs[i].localHost, localPort |-> fs[i].localPort,
         remoteHost |-> fs[i].remoteHost, remotePort |-> fs[i].remotePort,
         createdAt |-> fs[i].createdAt, active |-> fs[i].active]]

ForwardList ==
    /\ ret' = [op |-> "forwardList", alias |-> "", result |-> "ok",
               via |-> "call", request |-> "none",
               list |-> forwardList(forwardSessions)]
    /\ UNCHANGED <<sessions, conn, now, exec, sent, aux>>

GetSftp(alias) ==
    /\ gatedCall("getSftp", alias, "sftp")
    /\ UNCHANGED <<conn, now, exec, sent>>
    /\ UNCHANGED aux

(* ------------------------ command composition ------------------------- *)
\* Text is a sequence of pieces: single characters, and the literal pieces
\* of the templates ("export ", "=", "; ", "cd ", " && ", "su - ", " -c ").
\* An environment is the sequence of the [key, value] entries of the object
\* in insertion order, each key once.
Alpha == {"A", "z"}
Digit == {"1"}

\* /^[a-zA-Z_][a-zA-Z0-9_]*$/.test(key)
isValidEnvKey(key) ==
    /\ Len(key) >= 1
    /\ key[1] \in Alpha \cup {"_"}
    /\ \A i \in 2..Len(key) : key[i] \in Alpha \cup Digit \cup {"_"}

\* a username test that looks at the first character only
isValidUsernameFirstOnly(username) ==
    Len(username) >= 1 /\ username[1] \in Alpha \cup {"_"}
\* /^[a-zA-Z_][a-zA-Z0-9_-]*$/.test(username)
isValidUsername(username) ==
    /\ Len(username) >= 1
    /\ username[1] \in Alpha \cup {"_"}
    /\ \A i \in 2..Len(username) :
          username[i] \in Alpha \cup Digit \cup {"_", "-"}

\* s.replace(/'/g, "'\\''")
RECURSIVE replaceQuotes(_)
replaceQuotes(s) ==
    IF s = <<>> THEN <<>>
    ELSE (IF Head(s) = "'" THEN <<"'", "\\", "'", "'">> ELSE <<Head(s)>>)
         \o replaceQuotes(Tail(s))

\* escapeShellArg(s)
escapeShellArg(s) == <<"'">> \o replaceQuotes(s) \o <<"'">>

envKeys(env) == { env[i][1] : i \in DOMAIN env }
envGet(env, key) == env[CHOOSE i \in DOMAIN env : env[i][1] = key][2]

\* session.config.env, an optional field
configEnv(config) == IF "env" \in DOMAIN config THEN config.env ELSE <<>>

\* { ...a, ...b }: the keys of a keep their place and take b's value where b
\* has the key; the other keys of b follow in b's order
mergeEnv(a, b) ==
    [i \in DOMAIN a |-> IF a[i][1] \in envKeys(b)
                        THEN <<a[i][1], envGet(b, a[i][1])>> ELSE a[i]]
    \o SelectSeq(b, LAMBDA p : p[1] \notin envKeys(a))

\* entries.map(([k, v]) => `export ${k}=${escapeShellArg(v)}`).join('; ')
RECURSIVE joinExports(_)
joinExports(entries) ==
    IF entries = <<>> THEN <<>>
    ELSE <<"export ">> \o entries[1][1] \o <<"=">>
         \o escapeShellArg(entries[1][2])
         \o (IF Len(entries) > 1 THEN <<"; ">> ELSE <<>>)
         \o joinExports(Tail(entries))

\* `cd ${escapeShellArg(cwd)} && ${fullCommand}` when options.cwd is set
withCwd(cwd, fullCommand) ==
    IF cwd # <<>>
    THEN <<"cd ">> \o escapeShellArg(cwd) \o <<" && ">> \o fullCommand
    ELSE fullCommand

\* an exec that exports every key it is given
composeExecUnfiltered(command, sessionEnv, options) ==
    LET env == mergeEnv(sessionEnv, options.env) IN
    withCwd(options.cwd,
            IF Len(env) > 0 THEN joinExports(env) \o <<"; ">> \o command
            ELSE command)
\* fullCommand of exec()
composeExec(command, sessionEnv, options) ==
    LET env == mergeEnv(sessionEnv, options.env)
        validEnvEntries == SelectSeq(env, LAMBDA p : isValidEnvKey(p[1]))
    IN withCwd(options.cwd,
               IF Len(env) > 0 /\ Len(validEnvEntries) > 0
               THEN joinExports(validEnvEntries) \o <<"; ">> \o command
               ELSE command)

\* fullCommand of ptyStart()
composePty(command, sessionEnv, options) ==
    LET env == mergeEnv(sessionEnv, options.env) IN
    withCwd(options.cwd,
            IF Len(env) > 0 THEN joinExports(env) \o <<"; ">> \o command
            ELSE command)

\* the command and options of a call that passes none of interest
DefaultCommand == <<"ls">>
ExecOptions(maxOutputSize) ==
    [maxOutputSize |-> maxOutputSize, env |-> <<>>, cwd |-> <<>>]
\* a call without options
NoExecOptions == ExecOptions(0)
\* the options of calls that differ in maxOutputSize only (0: omitted)
ExecOptionsUpTo == { ExecOptions(m) : m \in 0..MaxLimit }

(* -------------------------------- exec --------------------------------- *)
\* a promise not yet settled
Pending == [state |-> "pending"]

\* the closure of an exec() invocation as client.exec(...) is issued;
\* maxOutputSize = 0 stands for an omitted option
execStart(session, alias, command, options) ==
    [state |-> "opening", alias |-> alias,
     command |-> command, options |-> options,
     fullCommand |-> composeExec(command, configEnv(session.config), options),
     maxOutputSize |-> IF options.maxOutputSize # 0
                       THEN options.maxOutputSize
                       ELSE defaultMaxOutputSize,
     stdout |-> <<>>, stderr |-> <<>>,
     stdoutTruncated |-> FALSE, stderrTruncated |-> FALSE,
     promise |-> Pending]

\* exec(alias, command, options) up to client.exec(...): one invocation is
\* followed at a time
execCall(alias, command, options) ==
    /\ sessions' = getSession(sessions, alias)
    /\ IF getSessionResult(sessions, alias) = "ok"
       THEN /\ exec.state = "idle"
            /\ exec' = execStart(sessions[alias], alias, command, options)
            /\ sent' = [out |-> <<>>, err |-> <<>>, code |-> "none"]
       ELSE UNCHANGED <<exec, sent>>

Exec(alias, command, options) ==
    /\ execCall(alias, command, options)
    /\ ret' = gatedRet("exec", alias, "exec")
    /\ UNCHANGED <<conn, now, aux>>

\* execAsUser(alias, command, targetUser, options)
\* the outcome is reported together with the arguments of the call
ExecAsUser(alias, command, targetUser, options) ==
    /\ IF ~isValidUsername(targetUser)
       THEN /\ ret' = [op |-> "execAsUser", alias |-> alias,
                       result |-> "InvalidUsername", via |-> "call",
                       request |-> "none",
                       command |-> command, targetUser |-> targetUser]
            /\ UNCHANGED <<sessions, exec, sent>>
       ELSE /\ execCall(alias,
                        <<"su - ">> \o targetUser \o <<" -c ">>
                            \o escapeShellArg(command),
                        options)
            /\ ret' = [command |-> command, targetUser |-> targetUser]
                       @@ gatedRet("execAsUser", alias, "exec")
    /\ UNCHANGED <<conn, now, aux>>

(* -------------------------------- PTY ---------------------------------- *)
\* options.bufferSize || this.defaultPtyBufferSize: 0 stands for an omitted
\* option
PtyOptions(bufferSize) == [bufferSize |-> bufferSize, env |-> <<>>, cwd |-> <<>>]
\* a call without options
NoPtyOptions == PtyOptions(0)
\* the options of calls that differ in bufferSize only (0: omitted)
PtyOptionsUpTo == { PtyOptions(b) : b \in 0..MaxLimit }

\* generatePtyId(): `pty_${++this.ptyIdCounter}_${Date.now()}`
generatePtyId(counter, t) == <<counter + 1, t>>

\* the channel of a PTY as the remote end sees it, and what it has delivered;
\* it is forgotten once it has closed and its entry is removed
NewChannel ==
    [open |-> TRUE, errored |-> FALSE, received |-> <<>>, total |-> 0,
     chunks |-> <<>>, written |-> <<>>, window |-> <<>>,
     disposedWrites |-> <<>>]

\* ptyStart(alias, command, options) up to client.exec(..., {pty}, callback):
\* one PTY is followed at a time, from its start until its entry is removed
\* and its channel has closed
PtyStart(alias, command, options) ==
    /\ gatedCall("ptyStart", alias, "exec-pty")
    /\ IF getSessionResult(sessions, alias) = "ok"
       THEN /\ ptyIdCounter < MaxPty
            /\ ptyStarts = <<>> /\ ptyLog = <<>>
            /\ ptyIdCounter' = ptyIdCounter + 1
            /\ ptyStarts' =
                 MapSet(ptyStarts, generatePtyId(ptyIdCounter, now),
                        [alias |-> alias, command |-> command,
                         options |-> options,
                         rows |-> 24, cols |-> 80,
                         maxBufferSize |-> IF options.bufferSize # 0
                                           THEN options.bufferSize
                                           ELSE defaultPtyBufferSize,
                         fullCommand |->
                             composePty(command,
                                        configEnv(sessions[alias].config),
                                        options)])
       ELSE UNCHANGED <<ptyIdCounter, ptyStarts>>
    /\ UNCHANGED <<conn, now, exec, sent, ptySessions, ptyLog, batch, par, fwd, quick>>

(* ----------------------------- client events --------------------------- *)
\* client.on('ready')
Ready(i) ==
    /\ clients[i].state = "connecting"
    /\ LET a == clients[i].alias IN
       /\ sessions' = MapSet(sessions, a,
                             [client |-> i, config |-> pending[i].config,
                              connectedAt |-> now, lastUsedAt |-> now,
                              reconnectAttempts |-> 0, connected |-> TRUE])
       /\ persisted' = persistSessions(sessions')
       /\ clients' = [clients EXCEPT ![i].state = "ready"]
       /\ pending' = MapDelete(pending, i)
       /\ ret' = Deliver(pending[i].caller, a, "resolved", "ready")
       /\ scheduled' = [scheduled EXCEPT ![a] = 0]
    /\ UNCHANGED <<timers, now, exec, sent>>
    /\ UNCHANGED aux

\* client.on('error')
Error(i) ==
    /\ clients[i].state \in {"connecting", "ready", "ended"}
    /\ LET a == clients[i].alias IN
       /\ sessions' = IF a \in DOMAIN sessions
                      THEN [sessions EXCEPT ![a].connected = FALSE]
                      ELSE sessions
       /\ clients' = [clients EXCEPT ![i].state = "errored"]
       /\ pending' = MapDelete(pending, i)
       /\ ret' = IF i \in DOMAIN pending
                 THEN Deliver(pending[i].caller, a, "ConnectFailed", "error")
                 ELSE NoRet
    /\ UNCHANGED <<timers, persisted, now, scheduled, exec, sent>>
    /\ UNCHANGED aux

\* a close handler that schedules a reconnect whether or not the alias has
\* an entry
CloseRescheduling(i) ==
    /\ LET a == clients[i].alias IN
       /\ timers[a] < MaxTimers
       /\ sessions' = IF a \in DOMAIN sessions
                      THEN [sessions EXCEPT ![a].connected = FALSE]
                      ELSE sessions
       /\ timers' = [timers EXCEPT ![a] = @ + 1]
       /\ scheduled' = [scheduled EXCEPT ![a] = @ + 1]
    /\ clients' = MapDelete(clients, i)
    /\ pending' = MapDelete(pending, i)
    /\ ret' = NoRet
    /\ UNCHANGED <<persisted, now, exec, sent>>
    /\ UNCHANGED aux

\* client.on('close'): the last event of a transport.  The promise of a
\* connect() whose transport closes before ready or error is never settled:
\* the call stays suspended and nothing refers to it again.
Close(i) ==
    /\ LET a == clients[i].alias IN
       IF a \in DOMAIN sessions
       THEN IF sessions[a].reconnectAttempts < maxReconnectAttempts
            THEN /\ timers[a] < MaxTimers
                 /\ sessions' = [sessions EXCEPT
                                   ![a].connected = FALSE,
                                   ![a].reconnectAttempts = @ + 1]
                 /\ timers' = [timers EXCEPT ![a] = @ + 1]
                 /\ scheduled' = [scheduled EXCEPT ![a] = @ + 1]
            ELSE /\ sessions' = [sessions EXCEPT ![a].connected = FALSE]
                 /\ UNCHANGED <<timers, scheduled>>
       ELSE UNCHANGED <<sessions, timers, scheduled>>
    /\ clients' = MapDelete(clients, i)
    /\ pending' = MapDelete(pending, i)
    /\ ret' = NoRet
    /\ UNCHANGED <<persisted, now, exec, sent>>
    /\ UNCHANGED aux

\* the clock advances
Tick ==
    /\ now < MaxClock
    /\ now' = now + 1
    /\ ret' = NoRet
    /\ UNCHANGED <<sessions, conn, exec, sent>>
    /\ UNCHANGED aux

(* ------------------------- exec channel events ------------------------ *)
\* Bytes of the remote output: "a" is an ASCII byte, "L" the lead byte and
\* "T" the continuation byte of a two-byte UTF-8 sequence.
Bytes == {"a", "L", "T"}
Chunks == UNION { [1..n -> Bytes] : n \in 1..MaxChunk }

\* data.toString('utf-8') of one chunk: "a" decodes to "a", "L" followed by
\* "T" to the single character "E", and a byte that forms no complete
\* sequence within the chunk to the replacement character "?".
RECURSIVE toStringUtf8(_)
toStringUtf8(data) ==
    IF data = <<>> THEN <<>>
    ELSE IF Head(data) = "a" THEN <<"a">> \o toStringUtf8(Tail(data))
    ELSE IF Head(data) = "L" /\ Len(data) >= 2 /\ data[2] = "T"
         THEN <<"E">> \o toStringUtf8(Tail(Tail(data)))
    ELSE <<"?">> \o toStringUtf8(Tail(data))

\* a slice that cuts nothing
sliceWhole(chunk, n) == chunk
\* chunk.slice(0, n)
slice(chunk, n) ==
    IF n >= 0
    THEN SubSeq(chunk, 1, IF n < Len(chunk) THEN n ELSE Len(chunk))
    ELSE SubSeq(chunk, 1, Len(chunk) + n)

\* '\n... [truncated]'
truncationMarker ==
    <<"\n", ".", ".", ".", " ", "[", "t", "r", "u", "n", "c", "a", "t", "e",
      "d", "]">>

\* the body of stream.on('data') and of stream.stderr.on('data') on the
\* accumulated text buf and its truncated flag
onData(buf, truncated, data, maxOutputSize) ==
    IF truncated THEN [buf |-> buf, truncated |-> TRUE]
    ELSE LET chunk == toStringUtf8(data) IN
         IF Len(buf) + Len(chunk) > maxOutputSize
         THEN [buf |-> buf \o slice(chunk, maxOutputSize - Len(buf)),
               truncated |-> TRUE]
         ELSE [buf |-> buf \o chunk, truncated |-> FALSE]

\* the stream handed back on close: truncated ? text + marker : text
returned(buf, truncated) ==
    IF truncated THEN buf \o truncationMarker ELSE buf

\* a promise that can be settled again
settleAgain(promise, outcome) == outcome
\* resolve(...) / reject(...): only the first settles the promise
settle(promise, outcome) ==
    IF promise.state = "pending" THEN outcome ELSE promise

\* a timer that close does not clear
timerNotCleared(e) == e.state \in {"running", "closed"}
\* the timeout of an invocation is armed from the exec callback until it
\* fires or the close handler clears it
timerArmed(e) == e.state = "running"

\* client.exec callback with err: reject, return
onOpenFailed(e) ==
    [e EXCEPT !.state = "failed",
              !.promise = settle(@, [state |-> "rejected",
                                     error |-> "ExecFailed"])]

\* client.exec callback with a stream: the timeout is armed and the close
\* and data handlers are registered
onOpened(e) == [e EXCEPT !.state = "running"]

\* the setTimeout callback: stream.close() and reject
onTimeout(e) ==
    [e EXCEPT !.state = "timedout",
              !.promise = settle(@, [state |-> "rejected",
                                     error |-> "Timeout"])]

\* stream.on('close', code): clearTimeout and resolve
onStreamClose(e, code) ==
    [e EXCEPT !.state = "closed",
              !.promise = settle(@,
                  [state |-> "resolved", success |-> (code = 0),
                   exitCode |-> code,
                   stdout |-> returned(e.stdout, e.stdoutTruncated),
                   stderr |-> returned(e.stderr, e.stderrTruncated)])]

\* what the caller of exec receives when a step takes the invocation from
\* e to e2
execRet(e, e2, via) ==
    IF e.promise = e2.promise THEN NoRet
    ELSE IF e2.promise.state = "resolved"
    THEN [op |-> "exec", alias |-> e.alias, result |-> "resolved",
          via |-> via, request |-> "none",
          success |-> e2.promise.success, exitCode |-> e2.promise.exitCode,
          stdout |-> e2.promise.stdout, stderr |-> e2.promise.stderr]
    ELSE [op |-> "exec", alias |-> e.alias, result |-> e2.promise.error,
          via |-> via, request |-> "none"]

ExecOpenFailed ==
    /\ exec.state = "opening"
    /\ exec' = onOpenFailed(exec)
    /\ ret' = execRet(exec, exec', "callback")
    /\ UNCHANGED <<sessions, conn, now, sent, aux>>

ExecOpened ==
    /\ exec.state = "opening"
    /\ exec' = onOpened(exec)
    /\ ret' = NoRet
    /\ UNCHANGED <<sessions, conn, now, sent, aux>>

ExecTimeout ==
    /\ exec.state # "idle"
    /\ timerArmed(exec)
    /\ exec' = onTimeout(exec)
    /\ ret' = execRet(exec, exec', "timer")
    /\ UNCHANGED <<sessions, conn, now, sent, aux>>

\* stream.on('data')
StdoutData(data) ==
    /\ exec.state \in {"running", "timedout"}
    /\ Len(sent.out) + Len(data) <= MaxData
    /\ sent' = [sent EXCEPT !.out = @ \o data]
    /\ LET r == onData(exec.stdout, exec.stdoutTruncated, data,
                       exec.maxOutputSize) IN
       exec' = [exec EXCEPT !.stdout = r.buf, !.stdoutTruncated = r.truncated]
    /\ ret' = NoRet
    /\ UNCHANGED <<sessions, conn, now, aux>>

\* stream.stderr.on('data')
StderrData(data) ==
    /\ exec.state \in {"running", "timedout"}
    /\ Len(sent.err) + Len(data) <= MaxData
    /\ sent' = [sent EXCEPT !.err = @ \o data]
    /\ LET r == onData(exec.stderr, exec.stderrTruncated, data,
                       exec.maxOutputSize) IN
       exec' = [exec EXCEPT !.stderr = r.buf, !.stderrTruncated = r.truncated]
    /\ ret' = NoRet
    /\ UNCHANGED <<sessions, conn, now, aux>>

\* the channel's close event with its exit code
ExecClose(code) ==
    /\ exec.state \in {"running", "timedout"}
    /\ exec' = onStreamClose(exec, code)
    /\ sent' = [sent EXCEPT !.code = code]
    /\ ret' = execRet(exec, exec', "close")
    /\ UNCHANGED <<sessions, conn, now, aux>>

(* ----------------------------- PTY events ------------------------------ *)
\* the window sizes a caller asks for
Windows == { <<40, 120>> }
\* what a caller writes to a PTY
Keystrokes == { <<"k">> }
\* an identifier no ptyStart has produced
UnknownPtyId == <<0, 0>>
PtyIds == DOMAIN ptyLog \cup {UnknownPtyId}

\* bytes all PTY channels have delivered
RECURSIVE SumTotal(_)
SumTotal(ids) ==
    IF ids = {} THEN 0
    ELSE LET i == CHOOSE x \in ids : TRUE IN
         ptyLog[i].total + SumTotal(ids \ {i})

\* a window that keeps the oldest characters
sliceFirst(text, n) == SubSeq(text, 1, IF n < Len(text) THEN n ELSE Len(text))
\* text.slice(-n) for n > 0: the last n characters
sliceLast(text, n) ==
    SubSeq(text, (IF n < Len(text) THEN Len(text) - n ELSE 0) + 1, Len(text))

\* a data handler that does not test the entry's active flag
onPtyDataWhileClosed(p, data) ==
    [p EXCEPT !.terminal = @ \o toStringUtf8(data),
              !.rawBuffer = @ \o toStringUtf8(data)]
\* a data handler that writes to the emulator what is left after the cut
onPtyDataClipped(p, data) ==
    IF ~p.active THEN p
    ELSE LET chunk == toStringUtf8(data)
             raw == p.rawBuffer \o chunk
         IN [p EXCEPT !.terminal = @ \o sliceLast(chunk, p.maxBufferSize),
                      !.rawBuffer = IF Len(raw) > p.maxBufferSize
                                    THEN sliceLast(raw, p.maxBufferSize)
                                    ELSE raw]
\* the body of the PTY's stream.on('data') on its entry p
onPtyData(p, data) ==
    IF ~p.active THEN p
    ELSE LET chunk == toStringUtf8(data)
             raw == p.rawBuffer \o chunk
         IN [p EXCEPT !.terminal = @ \o chunk,
                      !.rawBuffer = IF Len(raw) > p.maxBufferSize
                                    THEN sliceLast(raw, p.maxBufferSize)
                                    ELSE raw]

\* getScreenContent(terminal): the text the emulator shows for what was
\* written to it at its size
getScreenContent(p) ==
    [rows |-> p.geometry[1], cols |-> p.geometry[2], text |-> p.terminal]

\* client.exec callback of ptyStart with err
PtyOpenFailed(id) ==
    /\ id \in DOMAIN ptyStarts
    /\ ptyStarts' = MapDelete(ptyStarts, id)
    /\ ret' = [op |-> "ptyStart", alias |-> ptyStarts[id].alias,
               result |-> "PtyStartFailed", via |-> "callback",
               request |-> "none"]
    /\ UNCHANGED <<sessions, conn, now, exec, sent, ptySessions, ptyIdCounter,
                   ptyLog, batch, par, fwd, quick>>

\* a callback that stores the entry and hands out the id before the
\* handlers of the channel are registered
PtyOpenedUnwired(id) ==
    /\ id \in DOMAIN ptyStarts
    /\ ptySessions' =
         MapSet(ptySessions, id,
                [alias |-> ptyStarts[id].alias,
                 command |-> ptyStarts[id].command,
                 rows |-> ptyStarts[id].rows, cols |-> ptyStarts[id].cols,
                 geometry |-> <<ptyStarts[id].rows, ptyStarts[id].cols>>,
                 createdAt |-> now, lastReadAt |-> now,
                 rawBuffer |-> <<>>,
                 maxBufferSize |-> ptyStarts[id].maxBufferSize,
                 terminal |-> <<>>, active |-> TRUE])
    /\ ptyStarts' = MapDelete(ptyStarts, id)
    /\ ret' = [op |-> "ptyStart", alias |-> ptyStarts[id].alias,
               result |-> "resolved", via |-> "callback", request |-> "none",
               ptyId |-> id]
    /\ UNCHANGED <<sessions, conn, now, exec, sent, ptyIdCounter, ptyLog,
                   batch, par, fwd, quick>>

\* client.exec callback of ptyStart with a stream: the emulator and the
\* entry are created, the handlers registered and the entry stored
PtyOpened(id) ==
    /\ id \in DOMAIN ptyStarts
    /\ ptySessions' =
         MapSet(ptySessions, id,
                [alias |-> ptyStarts[id].alias,
                 command |-> ptyStarts[id].command,
                 rows |-> ptyStarts[id].rows, cols |-> ptyStarts[id].cols,
                 geometry |-> <<ptyStarts[id].rows, ptyStarts[id].cols>>,
                 createdAt |-> now, lastReadAt |-> now,
                 rawBuffer |-> <<>>,
                 maxBufferSize |-> ptyStarts[id].maxBufferSize,
                 terminal |-> <<>>, active |-> TRUE])
    /\ ptyLog' = MapSet(ptyLog, id, NewChannel)
    /\ ptyStarts' = MapDelete(ptyStarts, id)
    /\ ret' = [op |-> "ptyStart", alias |-> ptyStarts[id].alias,
               result |-> "resolved", via |-> "callback", request |-> "none",
               ptyId |-> id]
    /\ UNCHANGED <<sessions, conn, now, exec, sent, ptyIdCounter, batch, par, fwd, quick>>

\* stream.on('data') of a PTY; an entry that ptyClose has removed is no
\* longer reachable and its handler returns at once
PtyData(id, data) ==
    /\ id \in DOMAIN ptyLog /\ ptyLog[id].open
    /\ SumTotal(DOMAIN ptyLog) + Len(data) <= MaxData
    /\ ptySessions' = IF id \in DOMAIN ptySessions
                      THEN [ptySessions EXCEPT ![id] = onPtyData(@, data)]
                      ELSE ptySessions
    /\ ptyLog' = [ptyLog EXCEPT
                    ![id].total = @ + Len(data),
                    ![id].received =
                        IF id \in DOMAIN ptySessions /\ ptySessions[id].active
                        THEN @ \o data ELSE @,
                    ![id].chunks =
                        IF id \in DOMAIN ptySessions /\ ptySessions[id].active
                        THEN Append(@, data) ELSE @]
    /\ ret' = NoRet
    /\ UNCHANGED <<sessions, conn, now, exec, sent, ptyIdCounter, ptyStarts,
                   batch, par, fwd, quick>>

\* stream.on('close') of a PTY
PtyStreamClose(id) ==
    /\ id \in DOMAIN ptyLog /\ ptyLog[id].open
    /\ ptyLog' = IF id \in DOMAIN ptySessions
                 THEN [ptyLog EXCEPT ![id].open = FALSE]
                 ELSE MapDelete(ptyLog, id)
    /\ ptySessions' = IF id \in DOMAIN ptySessions
                      THEN [ptySessions EXCEPT ![id].active = FALSE]
                      ELSE ptySessions
    /\ ret' = NoRet
    /\ UNCHANGED <<sessions, conn, now, exec, sent, ptyIdCounter, ptyStarts,
                   batch, par, fwd, quick>>

\* stream.on('error') of a PTY: the handler keeps the entry and the
\* emulator in its closure, so it writes its message to the emulator also
\* after ptyClose has disposed it and removed the entry (disposedWrites)
PtyStreamError(id) ==
    /\ id \in DOMAIN ptyLog /\ ptyLog[id].open /\ ~ptyLog[id].errored
    /\ ptyLog' = [ptyLog EXCEPT
                    ![id].errored = TRUE,
                    ![id].disposedWrites =
                        IF id \in DOMAIN ptySessions THEN @
                        ELSE @ \o <<"\n[PTY Error: ", "]">>]
    /\ ptySessions' =
         IF id \in DOMAIN ptySessions
         THEN [ptySessions EXCEPT
                 ![id].active = FALSE,
                 ![id].terminal = @ \o <<"\n[PTY Error: ", "]">>]
         ELSE ptySessions
    /\ ret' = NoRet
    /\ UNCHANGED <<sessions, conn, now, exec, sent, ptyIdCounter, ptyStarts,
                   batch, par, fwd, quick>>

\* what a PTY operation on ptyId hands back
PtyRet(op, id, result) ==
    [op |-> op, alias |-> "", result |-> result, via |-> "call",
     request |-> "none", ptyId |-> id]

\* ptyWrite(ptyId, data); ok is what stream.write returns
PtyWrite(id, data, ok) ==
    /\ IF id \notin DOMAIN ptySessions
       THEN /\ ret' = PtyRet("ptyWrite", id, "NotFound")
            /\ UNCHANGED ptyLog
       ELSE IF ~ptySessions[id].active
       THEN /\ ret' = PtyRet("ptyWrite", id, "Closed")
            /\ UNCHANGED ptyLog
       ELSE /\ Len(ptyLog[id].written) + Len(data) <= MaxData
            /\ ptyLog' = [ptyLog EXCEPT ![id].written = @ \o data]
            /\ ret' = PtyRet("ptyWrite", id, IF ok THEN "true" ELSE "false")
    /\ UNCHANGED <<sessions, conn, now, exec, sent, ptySessions, ptyIdCounter,
                   ptyStarts, batch, par, fwd, quick>>

\* stream.setWindow(rows, cols, height, width): the window of the remote
\* pseudo-terminal as <<rows, cols>>
setWindow(rows, cols, height, width) == <<rows, cols>>

\* terminal.resize(columns, rows): the geometry of the emulator as
\* <<rows, cols>>
terminalResize(columns, rows) == <<rows, columns>>

\* a resize that hands the emulator its arguments in the order of setWindow
ptyResizedSwapped(p, rows, cols) ==
    [p EXCEPT !.geometry = terminalResize(rows, cols),
              !.rows = rows, !.cols = cols]
\* the entry of an active PTY after ptyResize: terminal.resize(cols, rows),
\* then rows and cols are recorded
ptyResized(p, rows, cols) ==
    [p EXCEPT !.geometry = terminalResize(cols, rows),
              !.rows = rows, !.cols = cols]

\* what ptyResize(ptyId, rows, cols) hands back
PtyResizeRet(id, rows, cols, result) ==
    [op |-> "ptyResize", alias |-> "", result |-> result, via |-> "call",
     request |-> "none", ptyId |-> id, rows |-> rows, cols |-> cols]

\* ptyResize(ptyId, rows, cols)
PtyResize(id, rows, cols) ==
    /\ IF id \notin DOMAIN ptySessions
       THEN /\ ret' = PtyResizeRet(id, rows, cols, "NotFound")
            /\ UNCHANGED <<ptySessions, ptyLog>>
       ELSE IF ~ptySessions[id].active
       THEN /\ ret' = PtyResizeRet(id, rows, cols, "Closed")
            /\ UNCHANGED <<ptySessions, ptyLog>>
       ELSE /\ ptyLog' = [ptyLog EXCEPT
                            ![id].window = setWindow(rows, cols, 0, 0)]
            /\ ptySessions' = [ptySessions EXCEPT
                                 ![id] = ptyResized(@, rows, cols)]
            /\ ret' = PtyResizeRet(id, rows, cols, "true")
    /\ UNCHANGED <<sessions, conn, now, exec, sent, ptyIdCounter, ptyStarts,
                   batch, par, fwd, quick>>

\* a raw read that never empties the buffer
rawAfterReadKept(p, mode, clear) == p.rawBuffer
\* the raw buffer of entry p after ptyRead: `if (clear) rawBuffer = ''` in
\* the raw branch
rawAfterRead(p, mode, clear) ==
    IF (IF mode = "" THEN "screen" ELSE mode) # "screen" /\ clear # "false"
    THEN <<>>
    ELSE p.rawBuffer

\* ptyRead(ptyId, {mode, clear}): mode "" and clear "" stand for omitted
\* options
PtyRead(id, mode, clear) ==
    /\ IF id \notin DOMAIN ptySessions
       THEN /\ ret' = PtyRet("ptyRead", id, "NotFound")
            /\ UNCHANGED <<ptySessions, ptyLog>>
       ELSE LET p == ptySessions[id]
                m == IF mode = "" THEN "screen" ELSE mode
                c == clear # "false"
            IN /\ ptySessions' =
                    [ptySessions EXCEPT
                       ![id].rawBuffer = rawAfterRead(p, mode, clear),
                       ![id].lastReadAt = now]
               /\ ptyLog' = [ptyLog EXCEPT ![id].received =
                                IF m # "screen" /\ c THEN <<>> ELSE @]
               /\ ret' = [op |-> "ptyRead", alias |-> "", result |-> "ok",
                          via |-> "call", request |-> "none", ptyId |-> id,
                          mode |-> mode, clear |-> clear,
                          data |-> IF m = "screen" THEN getScreenContent(p)
                                   ELSE p.rawBuffer,
                          active |-> p.active, rows |-> p.rows,
                          cols |-> p.cols]
    /\ UNCHANGED <<sessions, conn, now, exec, sent, ptyIdCounter, ptyStarts,
                   batch, par, fwd, quick>>

\* a ptyClose that refuses an entry whose channel has already ended
PtyCloseActiveOnly(id) ==
    /\ IF id \notin DOMAIN ptySessions \/ ~ptySessions[id].active
       THEN /\ ret' = PtyRet("ptyClose", id, "false")
            /\ UNCHANGED <<ptySessions, ptyLog>>
       ELSE /\ ptySessions' = MapDelete(ptySessions, id)
            /\ ptyLog' = IF ptyLog[id].open THEN ptyLog
                         ELSE MapDelete(ptyLog, id)
            /\ ret' = PtyRet("ptyClose", id, "true")
    /\ UNCHANGED <<sessions, conn, now, exec, sent, ptyIdCounter, ptyStarts,
                   batch, par, fwd, quick>>

\* ptyClose(ptyId): stream.close(), terminal.dispose(), active = false and
\* the entry is removed
PtyClose(id) ==
    /\ IF id \notin DOMAIN ptySessions
       THEN /\ ret' = PtyRet("ptyClose", id, "false")
            /\ UNCHANGED <<ptySessions, ptyLog>>
       ELSE /\ ptySessions' = MapDelete(ptySessions, id)
            /\ ptyLog' = IF ptyLog[id].open THEN ptyLog
                         ELSE MapDelete(ptyLog, id)
            /\ ret' = PtyRet("ptyClose", id, "true")
    /\ UNCHANGED <<sessions, conn, now, exec, sent, ptyIdCounter, ptyStarts,
                   batch, par, fwd, quick>>

\* a ptyList that counts as a read of every session it reports
PtyListTouching ==
    /\ ret' = [op |-> "ptyList", alias |-> "", result |-> "ok",
               via |-> "call", request |-> "none",
               list |-> [id \in DOMAIN ptySessions |->
                           [alias |-> ptySessions[id].alias,
                            command |-> ptySessions[id].command,
                            rows |-> ptySessions[id].rows,
                            cols |-> ptySessions[id].cols,
                            createdAt |-> ptySessions[id].createdAt,
                            lastReadAt |-> ptySessions[id].lastReadAt,
                            bufferSize |-> Len(ptySessions[id].rawBuffer),
                            active |-> ptySessions[id].active]]]
    /\ ptySessions' = [id \in DOMAIN ptySessions |->
                         [ptySessions[id] EXCEPT !.rawBuffer = <<>>]]
    /\ UNCHANGED <<sessions, conn, now, exec, sent, ptyIdCounter,
                   ptyStarts, ptyLog, batch, par, fwd, quick>>

\* ptyList(): one record per entry of the registry
PtyList ==
    /\ ret' = [op |-> "ptyList", alias |-> "", result |-> "ok",
               via |-> "call", request |-> "none",
               list |-> [id \in DOMAIN ptySessions |->
                           [alias |-> ptySessions[id].alias,
                            command |-> ptySessions[id].command,
                            rows |-> ptySessions[id].rows,
                            cols |-> ptySessions[id].cols,
                            createdAt |-> ptySessions[id].createdAt,
                            lastReadAt |-> ptySessions[id].lastReadAt,
                            bufferSize |-> Len(ptySessions[id].rawBuffer),
                            active |-> ptySessions[id].active]]]
    /\ UNCHANGED <<sessions, conn, now, exec, sent, ptySessions, ptyIdCounter,
                   ptyStarts, ptyLog, batch, par, fwd, quick>>

\* ptyCloseAll(): ptyClose for every key of the registry, counting the
\* entries it removed
PtyCloseAll ==
    /\ ptySessions' = <<>>
    /\ ptyLog' = [id \in {i \in DOMAIN ptyLog :
                             i \notin DOMAIN ptySessions \/ ptyLog[i].open}
                    |-> ptyLog[id]]
    /\ ret' = [op |-> "ptyCloseAll", alias |-> "", result |-> "ok",
               via |-> "call", request |-> "none",
               count |-> Cardinality(DOMAIN ptySessions)]
    /\ UNCHANGED <<sessions, conn, now, exec, sent, ptyIdCounter, ptyStarts,
                   batch, par, fwd, quick>>

\* The connection lifecycle: callers connect, reconnect and disconnect while
\* transports emit their events and reconnect timers fire.
Next ==
    \/ \E config \in Configs : Connect(config)
    \/ \E alias \in Aliases : Reconnect(alias)
    \/ \E alias \in Aliases : TimerFire(alias)
    \/ \E alias \in Aliases : Disconnect(alias)
    \/ \E i \in DOMAIN clients : Ready(i)
    \/ \E i \in DOMAIN clients : Error(i)
    \/ \E i \in DOMAIN clients : Close(i)

Spec == Init /\ [][Next]_vars

\* The state once connect(config) has resolved at time 0 and nothing else
\* has happened: Connect(config) followed by Ready(1).
ConnectedWith(config) ==
    /\ sessions = MapSet(<<>>, generateAlias(config),
                         [client |-> 1, config |-> config,
                          connectedAt |-> 0, lastUsedAt |-> 0,
                          reconnectAttempts |-> 0, connected |-> TRUE])
    /\ clients = MapSet(<<>>, 1, [alias |-> generateAlias(config),
                                  state |-> "ready"])
    /\ pending = <<>>
    /\ timers = [a \in Aliases |-> 0]
    /\ persisted = persistSessions(sessions)
    /\ now = 0
    /\ scheduled = [a \in Aliases |-> 0]
    /\ ret = Deliver("connect", generateAlias(config), "resolved", "ready")
    /\ exec = NoExec
    /\ sent = [out |-> <<>>, err |-> <<>>, code |-> "none"]
    /\ InitAux

InitConnected == \E config \in Configs : ConnectedWith(config)

\* Alias resolution: on a session that was connected, callers start
\* operations by alias and disconnect while the transport emits its events
\* and the clock advances.
NextGate ==
    \/ \E alias \in Aliases : Disconnect(alias)
    \/ \E i \in DOMAIN clients : Error(i)
    \/ \E i \in DOMAIN clients : Close(i)
    \/ Tick
    \/ \E alias \in Aliases, options \in ExecOptionsUpTo :
          Exec(alias, DefaultCommand, options)
    \/ \E alias \in Aliases : PtyStart(alias, DefaultCommand, NoPtyOptions)
    \/ \E alias \in Aliases :
          ForwardLocal(alias, 8080, "10.0.0.5", 80, "127.0.0.1")
    \/ \E alias \in Aliases :
          ForwardRemote(alias, 9000, "127.0.0.1", 3000, "127.0.0.1")
    \/ \E alias \in Aliases : GetSftp(alias)

SpecGate == InitConnected /\ [][NextGate]_vars

\* One exec invocation on a connected session, from the call to the close
\* of its channel.
NextExec ==
    \/ \E alias \in Aliases, options \in ExecOptionsUpTo :
          Exec(alias, DefaultCommand, options)
    \/ ExecOpenFailed
    \/ ExecOpened
    \/ ExecTimeout
    \/ \E data \in Chunks : StdoutData(data)
    \/ \E data \in Chunks : StderrData(data)
    \/ \E code \in {0, 1} : ExecClose(code)

SpecExec == InitConnected /\ [][NextExec]_vars

\* The inputs of command composition: environment keys that pass and fail
\* the identifier pattern, values and commands with and without a quote,
\* target users, working directories.
EnvKeyNames == { <<"A">>, <<"_", "1">>, <<"A", ";">> }
EnvValues == { <<"v">>, <<"'">> }
EnvEntries == { <<k, v>> : k \in EnvKeyNames, v \in EnvValues }
Envs ==
    { e \in UNION { [1..n -> EnvEntries] : n \in 0..MaxEnv } :
        \A i, j \in DOMAIN e : i # j => e[i][1] # e[j][1] }
Commands == { <<"ls">>, <<"i", "'">> }
Cwds == { <<>>, <<"d">> }
Users == { <<"A">>, <<"_", "-", "1">>, <<"-", "A">>, <<"A", ";">>, <<>> }
\* the options of exec and ptyStart calls with an environment and a
\* working directory
ComposeOptions ==
    { [maxOutputSize |-> 0, env |-> e, cwd |-> c] : e \in Envs, c \in Cwds }
PtyComposeOptions ==
    { [bufferSize |-> 0, env |-> e, cwd |-> c] : e \in Envs, c \in Cwds }
ConfigsEnv ==
    { [alias |-> "srv", host |-> "h1", username |-> "u", port |-> 22,
       env |-> e] : e \in Envs }

\* the state once connect(config) has resolved for a configuration with an
\* environment
InitCompose == \E config \in ConfigsEnv : ConnectedWith(config)

\* Command composition: an exec call on the connected alias with every
\* command, environment and working directory.
NextCompose ==
    \E alias \in DOMAIN sessions, command \in Commands,
       options \in ComposeOptions :
        Exec(alias, command, options)

SpecCompose == InitCompose /\ [][NextCompose]_vars

\* execAsUser calls with every alias, command and target user, on a session
\* that was connected and may have failed or been disconnected since.
NextAsUser ==
    \/ \E alias \in Aliases, command \in Commands, user \in Users :
          ExecAsUser(alias, command, user, NoExecOptions)
    \/ \E alias \in Aliases : Disconnect(alias)
    \/ \E i \in DOMAIN clients : Error(i)
    \/ Tick

SpecAsUser == InitConnected /\ [][NextAsUser]_vars

\* Command composition of ptyStart calls with every input.
NextPtyCompose ==
    \E alias \in Aliases, command \in Commands,
       options \in PtyComposeOptions :
        PtyStart(alias, command, options)

SpecPtyCompose == InitCompose /\ [][NextPtyCompose]_vars

\* The life of PTY sessions on a connected session: callers start, write,
\* resize and close them while their channels deliver data, fail and close.
NextPty ==
    \/ \E alias \in Aliases : PtyStart(alias, DefaultCommand, NoPtyOptions)
    \/ \E id \in DOMAIN ptyStarts : PtyOpenFailed(id)
    \/ \E id \in DOMAIN ptyStarts : PtyOpened(id)
    \/ \E id \in DOMAIN ptyLog, data \in Chunks : PtyData(id, data)
    \/ \E id \in DOMAIN ptyLog : PtyStreamClose(id)
    \/ \E id \in DOMAIN ptyLog : PtyStreamError(id)
    \/ \E id \in PtyIds, data \in Keystrokes, ok \in BOOLEAN :
          PtyWrite(id, data, ok)
    \/ \E id \in PtyIds, w \in Windows : PtyResize(id, w[1], w[2])
    \/ \E id \in PtyIds : PtyClose(id)

SpecPty == InitConnected /\ [][NextPty]_vars

\* Removal of PTY sessions: callers close PTYs one by one or all at once
\* while channels end and the connection of their alias is torn down.
NextPtyClose ==
    \/ \E alias \in Aliases : PtyStart(alias, DefaultCommand, NoPtyOptions)
    \/ \E id \in DOMAIN ptyStarts : PtyOpened(id)
    \/ \E id \in DOMAIN ptyLog : PtyStreamClose(id)
    \/ \E id \in DOMAIN ptyLog : PtyStreamError(id)
    \/ \E id \in PtyIds : PtyClose(id)
    \/ PtyCloseAll
    \/ \E alias \in Aliases : Disconnect(alias)
    \/ \E i \in DOMAIN clients : Error(i)
    \/ \E i \in DOMAIN clients : Close(i)
    \/ Tick

SpecPtyClose == InitConnected /\ [][NextPtyClose]_vars

\* The geometry of PTY sessions: callers resize, read and list while
\* channels deliver data and end.
NextPtyResize ==
    \/ \E alias \in Aliases : PtyStart(alias, DefaultCommand, NoPtyOptions)
    \/ \E id \in DOMAIN ptyStarts : PtyOpened(id)
    \/ \E id \in DOMAIN ptyLog, data \in Chunks : PtyData(id, data)
    \/ \E id \in DOMAIN ptyLog : PtyStreamClose(id)
    \/ \E id \in PtyIds, w \in Windows : PtyResize(id, w[1], w[2])
    \/ \E id \in PtyIds, mode \in {"screen", "raw"} : PtyRead(id, mode, "")
    \/ PtyList
    \/ \E id \in PtyIds : PtyClose(id)

SpecPtyResize == InitConnected /\ [][NextPtyResize]_vars

\* The raw buffer of PTY sessions: channels deliver data while callers read.
NextPtyRead ==
    \/ \E alias \in Aliases, options \in PtyOptionsUpTo :
          PtyStart(alias, DefaultCommand, options)
    \/ \E id \in DOMAIN ptyStarts : PtyOpened(id)
    \/ \E id \in DOMAIN ptyLog, data \in Chunks : PtyData(id, data)
    \/ \E id \in DOMAIN ptyLog : PtyStreamClose(id)
    \/ \E id \in PtyIds, mode \in {"", "screen", "raw"},
          clear \in {"", "true", "false"} : PtyRead(id, mode, clear)
    \/ \E id \in PtyIds : PtyClose(id)

SpecPtyRead == InitConnected /\ [][NextPtyRead]_vars

(* ---------------------------- ssh_exec_batch --------------------------- *)
\* The handler is one asynchronous loop: it runs up to an `await exec(...)`,
\* and resumes when the awaited promise has settled.  batch holds its
\* locals: i, results, and thrown, the error of an exec call that rejected
\* before it created a closure (getSession threw).  calls lists the indices
\* the loop has called exec for.  Once the next command is called, the
\* closure of the previous one, whose promise is settled, is not followed
\* any further.
MaxCommands == 2

CommandLists ==
    UNION { [1..n -> { <<"ls">>, <<"id">> }] : n \in 0..MaxCommands }

\* args.stopOnError as the caller passes it
StopOnErrorArgs == {"undefined", "true", "false"}

\* a loop that never stops at a failure
batchBreaksNever(b, r) == FALSE
\* `execResult.exitCode !== 0 && stopOnError` and, in the catch block,
\* `if (stopOnError) break`
batchBreaks(b, r) ==
    /\ b.stopOnError
    /\ IF "exitCode" \in DOMAIN r THEN r.exitCode # 0 ELSE TRUE

\* the entry pushed for iteration b.i when the awaited exec has settled
batchOutcome(b, e) ==
    IF b.thrown # "none"
    THEN [index |-> b.i, command |-> b.commands[b.i + 1],
          success |-> FALSE, error |-> b.thrown]
    ELSE IF e.promise.state = "resolved"
    THEN [index |-> b.i, command |-> b.commands[b.i + 1],
          success |-> e.promise.success, exitCode |-> e.promise.exitCode,
          stdout |-> e.promise.stdout, stderr |-> e.promise.stderr]
    ELSE [index |-> b.i, command |-> b.commands[b.i + 1],
          success |-> FALSE, error |-> e.promise.error]

\* the result of the tool call
batchSummary(b) ==
    [op |-> "ssh_exec_batch", alias |-> b.alias, result |-> "done",
     via |-> "call", request |-> "none",
     success |-> \A k \in DOMAIN b.results : b.results[k].success,
     total |-> Len(b.commands), executed |-> Len(b.results),
     results |-> b.results]

batchFinish(b) ==
    /\ batch' = [b EXCEPT !.state = "done"]
    /\ ret' = batchSummary(b)
    /\ UNCHANGED <<sessions, exec, sent>>

\* the loop test and the body up to the await
batchLoop(b) ==
    IF b.i < Len(b.commands)
    THEN /\ sessions' = getSession(sessions, b.alias)
         /\ IF getSessionResult(sessions, b.alias) = "ok"
            THEN /\ exec' = execStart(sessions[b.alias], b.alias,
                                      b.commands[b.i + 1], NoExecOptions)
                 /\ sent' = [out |-> <<>>, err |-> <<>>, code |-> "none"]
                 /\ batch' = [b EXCEPT !.thrown = "none",
                                       !.calls = Append(@, b.i)]
            ELSE /\ batch' = [b EXCEPT
                                !.thrown = getSessionResult(sessions, b.alias),
                                !.calls = Append(@, b.i)]
                 /\ UNCHANGED <<exec, sent>>
         /\ ret' = NoRet
    ELSE batchFinish(b)

\* the awaited exec has settled and the loop has not resumed yet
batchResumable ==
    /\ batch.state = "running"
    /\ \/ batch.thrown # "none"
       \/ exec.state # "idle" /\ exec.promise.state # "pending"

BatchStart(alias, commands, stopOnErrorArg) ==
    /\ batch.state = "idle"
    /\ exec.state = "idle"
    /\ batchLoop([state |-> "running", alias |-> alias,
                  commands |-> commands, arg |-> stopOnErrorArg,
                  stopOnError |-> (stopOnErrorArg # "false"),
                  i |-> 0, results |-> <<>>, thrown |-> "none",
                  calls |-> <<>>])
    /\ UNCHANGED <<conn, now, ptySessions, ptyIdCounter, ptyStarts, ptyLog,
                   par, fwd, quick>>

\* the continuation of the await: push the entry, break or go round
BatchResume ==
    /\ batchResumable
    /\ LET r == batchOutcome(batch, exec)
           b == [batch EXCEPT !.results = Append(@, r)]
       IN IF batchBreaks(batch, r)
          THEN batchFinish(b)
          ELSE batchLoop([b EXCEPT !.i = @ + 1])
    /\ UNCHANGED <<conn, now, ptySessions, ptyIdCounter, ptyStarts, ptyLog,
                   par, fwd, quick>>

(* --------------------------- ssh_exec_parallel ------------------------- *)
\* aliases.map(async (alias) => ...) calls exec for every alias in list
\* order before any event is handled; par.calls[k] is the closure of the
\* k-th exec, or, when getSession threw, the rejected promise alone.  Each
\* closure has its own channel, timer, buffers and promise.
MaxParallel == 2

\* a second server, connected without an explicit alias
Peer == [alias |-> "", host |-> "h3", username |-> "u", port |-> 22]

ParallelAliases == Aliases \cup {generateAlias(Peer)}

AliasLists == UNION { [1..n -> ParallelAliases] : n \in 0..MaxParallel }

\* two sessions, connected one after the other
InitParallel ==
    \E config \in Configs :
        /\ sessions =
             MapSet(MapSet(<<>>, generateAlias(config),
                           [client |-> 1, config |-> config,
                            connectedAt |-> 0, lastUsedAt |-> 0,
                            reconnectAttempts |-> 0, connected |-> TRUE]),
                    generateAlias(Peer),
                    [client |-> 2, config |-> Peer,
                     connectedAt |-> 0, lastUsedAt |-> 0,
                     reconnectAttempts |-> 0, connected |-> TRUE])
        /\ clients = MapSet(MapSet(<<>>, 1, [alias |-> generateAlias(config),
                                             state |-> "ready"]),
                            2, [alias |-> generateAlias(Peer),
                                state |-> "ready"])
        /\ pending = <<>>
        /\ timers = [a \in ParallelAliases |-> 0]
        /\ persisted = persistSessions(sessions)
        /\ now = 0
        /\ scheduled = [a \in ParallelAliases |-> 0]
        /\ ret = Deliver("connect", generateAlias(Peer), "resolved", "ready")
        /\ exec = NoExec
        /\ sent = [out |-> <<>>, err |-> <<>>, code |-> "none"]
        /\ InitAux

\* the registry after getSession for every alias of the list, in order
RECURSIVE getSessions(_, _)
getSessions(ss, aliases) ==
    IF aliases = <<>> THEN ss
    ELSE getSessions(getSession(ss, Head(aliases)), Tail(aliases))

\* a map in which one alias that cannot be resolved fails every call
parCallsFailFast(ss, aliases, command) ==
    [k \in DOMAIN aliases |->
        IF \A j \in DOMAIN aliases : getSessionResult(ss, aliases[j]) = "ok"
        THEN execStart(ss[aliases[k]], aliases[k], command, NoExecOptions)
        ELSE [state |-> "thrown", alias |-> aliases[k],
              promise |-> [state |-> "rejected", error |-> "NotFound"]]]
\* the exec invocations the map starts
parCalls(ss, aliases, command) ==
    [k \in DOMAIN aliases |->
        IF getSessionResult(ss, aliases[k]) = "ok"
        THEN execStart(ss[aliases[k]], aliases[k], command, NoExecOptions)
        ELSE [state |-> "thrown", alias |-> aliases[k],
              promise |-> [state |-> "rejected",
                           error |-> getSessionResult(ss, aliases[k])]]]

\* the entry the mapper returns for alias once its exec has settled
parOutcome(alias, e) ==
    IF e.promise.state = "resolved"
    THEN [alias |-> alias, success |-> e.promise.success,
          exitCode |-> e.promise.exitCode,
          stdout |-> e.promise.stdout, stderr |-> e.promise.stderr]
    ELSE [alias |-> alias, success |-> FALSE, error |-> e.promise.error]

\* every exec of the map has settled and Promise.all has not resumed the
\* handler yet
parResumable ==
    /\ par.state = "running"
    /\ \A k \in DOMAIN par.calls : par.calls[k].promise.state # "pending"

ParallelStart(aliases, command) ==
    /\ par.state = "idle"
    /\ sessions' = getSessions(sessions, aliases)
    /\ par' = [state |-> "running", aliases |-> aliases, command |-> command,
               calls |-> parCalls(sessions, aliases, command),
               results |-> <<>>]
    /\ ret' = NoRet
    /\ UNCHANGED <<conn, now, exec, sent, ptySessions, ptyIdCounter,
                   ptyStarts, ptyLog, batch, fwd, quick>>

\* an event of the k-th exec
parEvent(k, e) ==
    /\ par' = [par EXCEPT !.calls[k] = e]
    /\ ret' = NoRet
    /\ UNCHANGED <<sessions, conn, now, exec, sent, ptySessions,
                   ptyIdCounter, ptyStarts, ptyLog, batch, fwd, quick>>

ParOpenFailed(k) ==
    /\ par.state # "idle"
    /\ par.calls[k].state = "opening"
    /\ parEvent(k, onOpenFailed(par.calls[k]))

ParOpened(k) ==
    /\ par.state # "idle"
    /\ par.calls[k].state = "opening"
    /\ parEvent(k, onOpened(par.calls[k]))

ParTimeout(k) ==
    /\ par.state # "idle"
    /\ timerArmed(par.calls[k])
    /\ parEvent(k, onTimeout(par.calls[k]))

ParClose(k, code) ==
    /\ par.state # "idle"
    /\ par.calls[k].state \in {"running", "timedout"}
    /\ parEvent(k, onStreamClose(par.calls[k], code))

\* the continuation of `await Promise.all(execPromises)`
ParallelDone ==
    /\ parResumable
    /\ LET results == [k \in DOMAIN par.calls |->
                          parOutcome(par.aliases[k], par.calls[k])]
       IN /\ par' = [par EXCEPT !.state = "done", !.results = results]
          /\ ret' = [op |-> "ssh_exec_parallel", alias |-> "",
                     result |-> "done", via |-> "call", request |-> "none",
                     success |-> \A k \in DOMAIN results : results[k].success,
                     total |-> Len(par.aliases), results |-> results]
    /\ UNCHANGED <<sessions, conn, now, exec, sent, ptySessions,
                   ptyIdCounter, ptyStarts, ptyLog, batch, fwd, quick>>

\* A continuation runs as a microtask, before any other event is handled.
NoContinuation(A) == ~batchResumable /\ ~parResumable /\ A

\* One ssh_exec_batch call on a session that was connected, with the events
\* of its exec invocations and of the transport.
NextBatch ==
    \/ \E alias \in Aliases, commands \in CommandLists,
          arg \in StopOnErrorArgs : BatchStart(alias, commands, arg)
    \/ BatchResume
    \/ NoContinuation(ExecOpenFailed)
    \/ NoContinuation(ExecOpened)
    \/ NoContinuation(ExecTimeout)
    \/ NoContinuation(\E code \in {0, 1} : ExecClose(code))
    \/ NoContinuation(\E alias \in Aliases : Disconnect(alias))
    \/ NoContinuation(\E i \in DOMAIN clients : Error(i))

SpecBatch == InitConnected /\ [][NextBatch]_vars

\* One ssh_exec_parallel call on two sessions, either of which may have
\* failed before the call or fail during it.
NextParallel ==
    \/ \E aliases \in AliasLists : ParallelStart(aliases, DefaultCommand)
    \/ ParallelDone
    \/ NoContinuation(\E k \in DOMAIN par.calls : ParOpenFailed(k))
    \/ NoContinuation(\E k \in DOMAIN par.calls : ParOpened(k))
    \/ NoContinuation(\E k \in DOMAIN par.calls : ParTimeout(k))
    \/ NoContinuation(\E k \in DOMAIN par.calls, code \in {0, 1} :
                         ParClose(k, code))
    \/ NoContinuation(\E i \in DOMAIN clients : Error(i))

SpecParallel == InitParallel /\ [][NextParallel]_vars

(* ================== properties of the connection lifecycle ============= *)
\* the transport i is shut down, shutting down, or already closed in cs
TransportDown(cs, i) ==
    i \notin DOMAIN cs \/ cs[i].state \in {"ended", "errored"}

\* the entry of alias b is the same in both states but for lastUsedAt
SameButLastUsed(b) ==
    /\ sessions'[b].client = sessions[b].client
    /\ sessions'[b].config = sessions[b].config
    /\ sessions'[b].connectedAt = sessions[b].connectedAt
    /\ sessions'[b].reconnectAttempts = sessions[b].reconnectAttempts
    /\ sessions'[b].connected = sessions[b].connected

\* C1: a connect() call for an alias whose entry is connected returns the
\* alias at once, constructs and connects no transport, and changes nothing
\* in the registry but that entry's lastUsedAt: its config, connectedAt and
\* reconnect counter stay, as do all other entries, timers and the snapshot.
C1_ConnectIdempotent ==
    [][\A a \in Aliases :
         ( /\ ret'.op = "connect" /\ ret'.via = "call" /\ ret'.alias = a
           /\ a \in DOMAIN sessions /\ sessions[a].connected )
         => /\ ret'.result = "resolved"
            /\ ret'.request = "none"
            /\ clients' = clients
            /\ pending' = pending
            /\ DOMAIN sessions' = DOMAIN sessions
            /\ SameButLastUsed(a)
            /\ \A b \in DOMAIN sessions \ {a} : sessions'[b] = sessions[b]
            /\ timers' = timers
            /\ persisted' = persisted]_vars

\* a connect() call has just returned the alias of a connected entry while
\* another transport work for the alias is still pending
C1_Witness ==
    /\ ret.op = "connect" /\ ret.via = "call" /\ ret.result = "resolved"
    /\ ret.alias \in DOMAIN sessions
    /\ sessions[ret.alias].connected
    /\ timers[ret.alias] > 0

\* C3: disconnect(alias) on an alias with an entry, connected or not, ends
\* the entry's transport, removes exactly that entry and returns true; on an
\* alias with no entry it returns false and leaves registry, transports,
\* timers and snapshot as they were.  Either way the alias has no entry
\* afterwards, so a disconnect that follows at once returns false.
C3_Disconnect ==
    [][\A a \in Aliases :
         (ret'.op = "disconnect" /\ ret'.alias = a)
         => /\ a \notin DOMAIN sessions'
            /\ IF a \in DOMAIN sessions
               THEN /\ ret'.result = "true"
                    /\ TransportDown(clients', sessions[a].client)
                    /\ DOMAIN sessions' = DOMAIN sessions \ {a}
                    /\ \A b \in DOMAIN sessions' : sessions'[b] = sessions[b]
               ELSE /\ ret'.result = "false"
                    /\ UNCHANGED <<sessions, clients, pending, timers,
                                   persisted>>]_vars

\* disconnect has just removed an entry that was disconnected but retained
\* (its transport had closed and scheduled a reconnect)
C3_Witness ==
    /\ ret.op = "disconnect" /\ ret.result = "true"
    /\ ret.alias \notin DOMAIN sessions
    /\ timers[ret.alias] > 0

\* C4 (as claimed): whenever reconnect(alias) resolves, the registry entry of
\* the alias is connected over a transport that is up, not the ended one.
C4_ReconnectReplaces ==
    (ret.op = "reconnect" /\ ret.result = "resolved")
    => /\ ret.alias \in DOMAIN sessions
       /\ sessions[ret.alias].connected
       /\ sessions[ret.alias].client \in DOMAIN clients
       /\ clients[sessions[ret.alias].client].state = "ready"

\* C5: reconnect(alias) on an alias with no entry rejects with not-found,
\* constructs no transport and leaves the registry unchanged; when a
\* reconnect timer fires for an alias whose entry is gone, the same happens
\* and nothing reaches any caller.
C5_ReconnectUnknown ==
    [][\A a \in Aliases :
         /\ ( /\ ret'.op = "reconnect" /\ ret'.via = "call" /\ ret'.alias = a
              /\ a \notin DOMAIN sessions )
            => /\ ret'.result = "NotFound"
               /\ ret'.request = "none"
               /\ UNCHANGED <<sessions, clients, pending, timers, persisted>>
         /\ (timers'[a] < timers[a] /\ a \notin DOMAIN sessions)
            => /\ ret' = NoRet
               /\ UNCHANGED <<sessions, clients, pending, persisted>>]_vars

\* reconnect has just rejected for an alias whose entry was removed while a
\* reconnect timer for it is still pending
C5_Witness ==
    /\ ret.op = "reconnect" /\ ret.result = "NotFound"
    /\ ret.alias \notin DOMAIN sessions
    /\ timers[ret.alias] > 0

\* the automatic reconnect attempts pending for alias a: scheduled timers and
\* connects in flight that a timer started
AutoPending(a) ==
    timers[a] + Cardinality({ i \in DOMAIN pending :
                                /\ i \in DOMAIN clients
                                /\ clients[i].alias = a
                                /\ pending[i].caller = "timer" })

\* C6 (as claimed): for every alias at most one automatic reconnect attempt
\* is pending at any time.
C6_OneAutoReconnect == \A a \in Aliases : AutoPending(a) <= 1

C8_NeverConnectingAndUsable ==
    \A i \in DOMAIN clients :
        clients[i].state = "connecting"
        => getSessionResult(sessions, clients[i].alias) # "ok"

(* ====================== properties of alias resolution ================= *)
GatedOps == {"exec", "ptyStart", "forwardLocal", "forwardRemote", "getSftp"}

\* C2: exec, ptyStart, forwardLocal, forwardRemote and getSftp fail with
\* NotFound when the alias has no entry and with Disconnected when its entry
\* is not connected, and then ask nothing of any transport or socket and
\* change neither the registry nor the exec invocation; when the entry is
\* connected they set its lastUsedAt to the current time, change nothing
\* else in it and go on to their request.  Among these steps lastUsedAt
\* changes only where resolution succeeded.
C2_AliasGate ==
    [][/\ \A a \in Aliases :
            (ret'.op \in GatedOps /\ ret'.via = "call" /\ ret'.alias = a)
            => IF a \notin DOMAIN sessions
               THEN /\ ret'.result = "NotFound"
                    /\ ret'.request = "none"
                    /\ UNCHANGED <<sessions, conn, exec, sent>>
               ELSE IF ~sessions[a].connected
               THEN /\ ret'.result = "Disconnected"
                    /\ ret'.request = "none"
                    /\ UNCHANGED <<sessions, conn, exec, sent>>
               ELSE /\ ret'.result = "pending"
                    /\ ret'.request # "none"
                    /\ DOMAIN sessions' = DOMAIN sessions
                    /\ sessions'[a].lastUsedAt = now
                    /\ SameButLastUsed(a)
       /\ \A a \in DOMAIN sessions \cap DOMAIN sessions' :
            sessions'[a].lastUsedAt # sessions[a].lastUsedAt
            => /\ ret'.op \in GatedOps /\ ret'.alias = a
               /\ sessions[a].connected]_vars

\* an operation has just failed with Disconnected at a time later than the
\* entry's lastUsedAt, which it left alone
C2_Witness ==
    /\ ret.op \in GatedOps /\ ret.result = "Disconnected"
    /\ ret.alias \in DOMAIN sessions
    /\ sessions[ret.alias].lastUsedAt < now

(* ========================= properties of exec output =================== *)
\* C9: in every state the accumulated stdout and the accumulated stderr of
\* an exec invocation are at most maxOutputSize characters long, and each
\* stream handed back on close is at most maxOutputSize plus the 16
\* characters of the truncation marker.
C9_ExecOutputBounded ==
    /\ exec.state # "idle"
       => /\ Len(exec.stdout) <= exec.maxOutputSize
          /\ Len(exec.stderr) <= exec.maxOutputSize
    /\ (ret.op = "exec" /\ ret.via = "close")
       => /\ Len(ret.stdout) <= exec.maxOutputSize + Len(truncationMarker)
          /\ Len(ret.stderr) <= exec.maxOutputSize + Len(truncationMarker)

\* an exec has resolved with stdout cut at the bound and marked, after the
\* command wrote more than maxOutputSize, and with stderr left whole
C9_Witness ==
    /\ ret.op = "exec" /\ ret.via = "close"
    /\ Len(sent.out) > exec.maxOutputSize
    /\ Len(ret.stdout) = exec.maxOutputSize + Len(truncationMarker)
    /\ Len(truncationMarker) = 16
    /\ Len(sent.err) > 0
    /\ Len(ret.stderr) = Len(sent.err)

\* the UTF-8 bytes of a text: "a" is one byte, "E" the two bytes "L" "T",
\* and the replacement character "?" three bytes of its own
RECURSIVE Utf8Bytes(_)
Utf8Bytes(text) ==
    IF text = <<>> THEN <<>>
    ELSE (CASE Head(text) = "a" -> <<"a">>
            [] Head(text) = "E" -> <<"L", "T">>
            [] OTHER -> <<"r1", "r2", "r3">>) \o Utf8Bytes(Tail(text))

\* the first min(Len(bytes), n) bytes
BytePrefix(bytes, n) == SubSeq(bytes, 1, IF Len(bytes) < n THEN Len(bytes) ELSE n)

\* the bytes are well-formed UTF-8: every "L" is followed by its "T"
RECURSIVE WellFormed(_)
WellFormed(bytes) ==
    IF bytes = <<>> THEN TRUE
    ELSE IF Head(bytes) = "a" THEN WellFormed(Tail(bytes))
    ELSE /\ Head(bytes) = "L" /\ Len(bytes) >= 2 /\ bytes[2] = "T"
         /\ WellFormed(Tail(Tail(bytes)))

\* C10 (as claimed, and only for output that is well-formed UTF-8): when exec
\* resolves, each stream before its marker is the prefix of length
\* min(total, maxOutputSize) of the bytes delivered on that stream, and the
\* stream carries the marker exactly when a byte of it was discarded,
\* whatever the other stream did.
C10_ExactPerStream ==
    ( /\ ret.op = "exec" /\ ret.via = "close"
      /\ WellFormed(sent.out) /\ WellFormed(sent.err) )
    => /\ Utf8Bytes(exec.stdout) = BytePrefix(sent.out, exec.maxOutputSize)
       /\ Utf8Bytes(exec.stderr) = BytePrefix(sent.err, exec.maxOutputSize)
       /\ ret.stdout = IF Len(sent.out) > exec.maxOutputSize
                       THEN exec.stdout \o truncationMarker ELSE exec.stdout
       /\ ret.stderr = IF Len(sent.err) > exec.maxOutputSize
                       THEN exec.stderr \o truncationMarker ELSE exec.stderr

C12_ExecCompletion ==
    [][/\ (exec.state = "running" /\ exec'.state = "closed")
          => /\ exec'.promise.state = "resolved"
             /\ exec'.promise.exitCode = sent'.code
             /\ exec'.promise.success = (sent'.code = 0)
             /\ ret'.op = "exec" /\ ret'.result = "resolved"
             /\ ret'.exitCode = sent'.code
             /\ ret'.success = (sent'.code = 0)
       /\ exec.state = "closed" => exec' = exec
       /\ (exec.state # "idle" /\ exec.promise.state # "pending")
          => /\ exec'.promise = exec.promise
             /\ ret'.via \notin {"close", "timer", "callback"}
       /\ (exec.state = "opening" /\ exec'.state = "failed")
          => /\ exec'.promise = [state |-> "rejected", error |-> "ExecFailed"]
             /\ ret'.op = "exec" /\ ret'.result = "ExecFailed"
       /\ exec.state = "failed" => exec' = exec]_vars

\* an exec has just resolved on a close with a non-zero code after output
C12_Witness ==
    /\ ret.op = "exec" /\ ret.via = "close"
    /\ ret.exitCode = 1 /\ ret.success = FALSE
    /\ exec.stdout # <<>>
    /\ exec.promise.state = "resolved"

(* =================== properties of command composition ================= *)
\* the identifier pattern ^[A-Za-z_][A-Za-z0-9_]*$ of environment keys
MatchesKeyPattern(key) ==
    /\ key # <<>>
    /\ Head(key) \in {"A", "z", "_"}
    /\ \A i \in DOMAIN key : key[i] \in {"A", "z", "_", "1"}

\* the positions of cmd where `export key=` starts
ExportsAt(cmd, key) ==
    { i \in DOMAIN cmd :
        /\ cmd[i] = "export "
        /\ i + Len(key) + 1 <= Len(cmd)
        /\ SubSeq(cmd, i + 1, i + Len(key)) = key
        /\ cmd[i + Len(key) + 1] = "=" }

\* text occurs in cmd from position i on
OccursAt(cmd, i, text) ==
    /\ i + Len(text) - 1 <= Len(cmd)
    /\ SubSeq(cmd, i, i + Len(text) - 1) = text

\* C13: the command exec composes exports the session environment
\* overridden key by key by the call environment: a key that fails the
\* identifier pattern is exported nowhere in the command, every other key is
\* exported exactly once, with the shell-quoted value in effect for it, there
\* are no further exports, and with no key left the command is the caller's
\* (after the cd prefix, if any) with no export before it.
C13_EnvComposition ==
    exec.state # "idle"
    => LET cmd == exec.fullCommand
           senv == configEnv(sessions[exec.alias].config)
           cenv == exec.options.env
           keys == envKeys(senv) \cup envKeys(cenv)
           valid == { k \in keys : MatchesKeyPattern(k) }
           value(k) == IF k \in envKeys(cenv) THEN envGet(cenv, k)
                       ELSE envGet(senv, k)
       IN /\ Cardinality({ i \in DOMAIN cmd : cmd[i] = "export " })
               = Cardinality(valid)
          /\ \A k \in valid :
                /\ Cardinality(ExportsAt(cmd, k)) = 1
                /\ \A i \in ExportsAt(cmd, k) :
                      OccursAt(cmd, i + Len(k) + 2, escapeShellArg(value(k)))
          /\ \A k \in keys \ valid : ExportsAt(cmd, k) = {}
          /\ valid = {}
             => cmd = IF exec.options.cwd = <<>> THEN exec.command
                      ELSE <<"cd ">> \o escapeShellArg(exec.options.cwd)
                           \o <<" && ">> \o exec.command

\* exec composed a command for a call whose environment holds only a key
\* with a ";" in it, on a session whose environment holds a valid key, in a
\* working directory
C13_Witness ==
    /\ exec.state = "opening"
    /\ envKeys(exec.options.env) = { <<"A", ";">> }
    /\ envKeys(configEnv(sessions[exec.alias].config)) = { <<"A">> }
    /\ exec.options.cwd # <<>>
    /\ Len(exec.fullCommand) > Len(exec.command)

\* C14 (as claimed): the remote command ptyStart composes is the one exec
\* composes for the same command, session environment, call environment and
\* working directory.
C14_PtyComposesLikeExec ==
    \A id \in DOMAIN ptyStarts :
        ptyStarts[id].fullCommand
          = composeExec(ptyStarts[id].command,
                        configEnv(sessions[ptyStarts[id].alias].config),
                        [maxOutputSize |-> 0,
                         env |-> ptyStarts[id].options.env,
                         cwd |-> ptyStarts[id].options.cwd])

\* the pattern ^[a-zA-Z_][a-zA-Z0-9_-]*$ of target usernames
MatchesUserPattern(user) ==
    /\ user # <<>>
    /\ Head(user) \in {"A", "z", "_"}
    /\ \A i \in DOMAIN user : user[i] \in {"A", "z", "_", "1", "-"}

\* C15: an execAsUser call whose target username fails the pattern rejects
\* with InvalidUsername and touches nothing: no alias resolution
\* (lastUsedAt and the registry stay), no request to any transport, no exec
\* invocation; a call with a username that passes goes through alias
\* resolution and, when that succeeds, starts exactly one exec of
\* `su - user -c 'command'` with the command shell-quoted.
C15_ExecAsUserFailsClosed ==
    [][ret'.op = "execAsUser"
       => IF ~MatchesUserPattern(ret'.targetUser)
          THEN /\ ret'.result = "InvalidUsername"
               /\ ret'.request = "none"
               /\ UNCHANGED <<sessions, conn, exec, sent, aux>>
          ELSE /\ ret'.result = CASE ret'.alias \notin DOMAIN sessions
                                       -> "NotFound"
                                  [] ~sessions[ret'.alias].connected
                                       -> "Disconnected"
                                  [] OTHER -> "pending"
               /\ ret'.result = "pending"
                  => /\ ret'.request = "exec"
                     /\ exec.state = "idle" /\ exec'.state = "opening"
                     /\ exec'.fullCommand
                          = <<"su - ">> \o ret'.targetUser \o <<" -c ">>
                            \o <<"'">> \o replaceQuotes(ret'.command)
                            \o <<"'">>
               /\ ret'.result # "pending"
                  => UNCHANGED <<sessions, conn, exec, sent, aux>>]_vars

\* execAsUser has just rejected a username with a ";" in it on an alias
\* that is connected
C15_Witness ==
    /\ ret.op = "execAsUser" /\ ret.result = "InvalidUsername"
    /\ ret.targetUser = <<"A", ";">>
    /\ ret.alias \in DOMAIN sessions
    /\ sessions[ret.alias].connected
    /\ exec.state = "idle"

(* ======================= properties of batch execution ================= *)
\* entry r reports a command that exited with code 0
Succeeded(r) == "exitCode" \in DOMAIN r /\ r.exitCode = 0 /\ r.success

\* C16: the batch loop is sequential and stops correctly.  The commands are
\* called in list order and a command is called only when every earlier one
\* has settled and has its entry in the results; with stopOnError (the
\* default: anything but false) every command called after another
\* follows one that exited with 0; a finished batch has either run the
\* whole list or (only with stopOnError) stopped at a failure; the entries
\* are one per executed command, in order, each with its index, its command
\* and the outcome of its own exec; the summary has executed = number of
\* entries, total = list length and success exactly when every entry
\* succeeded.
C16_BatchSequential ==
    [][/\ batch'.state # "idle"
          => LET b == batch' IN
             /\ b.stopOnError = (b.arg # "false")
             /\ \A k \in DOMAIN b.calls : b.calls[k] = k - 1
             /\ Len(b.calls) <= Len(b.commands)
             /\ Len(b.results)
                  = IF b.state = "running" THEN Len(b.calls) - 1
                    ELSE Len(b.calls)
             /\ \A k \in DOMAIN b.results :
                   /\ b.results[k].index = k - 1
                   /\ b.results[k].command = b.commands[k]
                   /\ (b.stopOnError /\ k < Len(b.calls))
                         => Succeeded(b.results[k])
             /\ b.state = "done"
                => /\ \/ Len(b.results) = Len(b.commands)
                      \/ /\ b.stopOnError
                         /\ b.results # <<>>
                         /\ ~Succeeded(b.results[Len(b.results)])
                   /\ batch.state # "done"
                      => /\ ret'.op = "ssh_exec_batch"
                         /\ ret'.results = b.results
                         /\ ret'.executed = Len(b.results)
                         /\ ret'.total = Len(b.commands)
                         /\ ret'.success
                              = (\A k \in DOMAIN b.results :
                                    b.results[k].success)
       /\ (batch.state = "running" /\ batch'.calls # batch.calls)
          => \/ batch.thrown # "none"
             \/ exec.promise.state # "pending"
       /\ (batch.state = "running" /\ batch'.results # batch.results)
          => LET r == batch'.results[Len(batch'.results)] IN
             /\ batch'.results = Append(batch.results, r)
             /\ IF batch.thrown # "none"
                THEN ~r.success /\ r.error = batch.thrown
                ELSE IF exec.promise.state = "resolved"
                THEN /\ r.exitCode = sent.code
                     /\ r.success = (sent.code = 0)
                ELSE /\ exec.promise.state = "rejected"
                     /\ ~r.success /\ r.error = exec.promise.error]_vars

\* a batch of two commands with the default stopOnError has finished after
\* its first command timed out, the second never called
C16_Witness ==
    /\ batch.state = "done"
    /\ batch.arg = "undefined"
    /\ Len(batch.commands) = 2
    /\ batch.calls = <<0>>
    /\ Len(batch.results) = 1
    /\ "error" \in DOMAIN batch.results[1]
    /\ batch.results[1].error = "Timeout"
    /\ ret.op = "ssh_exec_batch" /\ ret.executed = 1 /\ ret.total = 2
    /\ ~ret.success

(* ====================== properties of parallel execution =============== *)
\* C17: parallel execution isolates the aliases.  The call starts one exec
\* per listed alias, each failing or starting on the state of its own alias
\* alone; every later step changes at most one of the invocations, and
\* never one whose promise is settled, so a NotFound, Disconnected,
\* ExecFailed or Timeout on one alias (or the failure of a transport)
\* neither settles nor closes an exec in flight on another; the result has
\* one entry per listed alias, in list order, each the outcome of that
\* alias's own exec; success is true exactly when every entry succeeded.
C17_ParallelIsolated ==
    [][/\ (par.state = "idle" /\ par'.state # "idle")
          => /\ DOMAIN par'.calls = DOMAIN par'.aliases
             /\ \A k \in DOMAIN par'.aliases :
                   LET a == par'.aliases[k]
                       c == par'.calls[k]
                   IN IF a \notin DOMAIN sessions
                      THEN c.promise = [state |-> "rejected",
                                        error |-> "NotFound"]
                      ELSE IF ~sessions[a].connected
                      THEN c.promise = [state |-> "rejected",
                                        error |-> "Disconnected"]
                      ELSE /\ c.state = "opening" /\ c.alias = a
                           /\ c.promise.state = "pending"
       /\ par.state # "idle"
          => /\ par'.state # "idle"
             /\ par'.aliases = par.aliases
             /\ DOMAIN par'.calls = DOMAIN par.calls
             /\ \A k \in DOMAIN par.calls :
                   /\ par.calls[k].promise.state # "pending"
                      => par'.calls[k].promise = par.calls[k].promise
                   /\ par'.calls[k] # par.calls[k]
                      => \A j \in DOMAIN par.calls \ {k} :
                            par'.calls[j] = par.calls[j]
       /\ (par.state = "running" /\ par'.state = "done")
          => /\ par'.calls = par.calls
             /\ Len(par'.results) = Len(par.aliases)
             /\ \A k \in DOMAIN par.aliases :
                   LET r == par'.results[k]
                       p == par.calls[k].promise
                   IN /\ r.alias = par.aliases[k]
                      /\ IF p.state = "resolved"
                         THEN /\ r.exitCode = p.exitCode
                              /\ r.success = (p.exitCode = 0)
                         ELSE /\ p.state = "rejected"
                              /\ ~r.success /\ r.error = p.error
             /\ ret'.op = "ssh_exec_parallel"
             /\ ret'.results = par'.results
             /\ ret'.total = Len(par.aliases)
             /\ ret'.success = (\A k \in DOMAIN par'.results :
                                   par'.results[k].success)]_vars

\* a call on two connected aliases has returned: the first alias's command
\* exited with 0 although the second one's had timed out before
C17_Witness ==
    /\ par.state = "done"
    /\ Len(par.aliases) = 2
    /\ par.aliases[1] # par.aliases[2]
    /\ par.results[1].success /\ par.results[1].exitCode = 0
    /\ "error" \in DOMAIN par.results[2]
    /\ par.results[2].error = "Timeout"
    /\ ~ret.success

(* ======================== properties of PTY sessions =================== *)
\* the entry of id is in the table and active
PtyActive(ps, id) == id \in DOMAIN ps /\ ps[id].active

\* C18: the PTY state machine is one-way.  An entry enters the table
\* active, under an identifier not used before; the channel's close or
\* error event and ptyClose leave it inactive or removed; an entry that is
\* inactive or removed is never active again; on such an entry ptyWrite and
\* ptyResize fail and neither bytes nor a window size reach the channel,
\* and a data event changes neither its raw buffer nor its emulator.
C18_PtyOneWay ==
    [][/\ \A id \in DOMAIN ptySessions' \ DOMAIN ptySessions :
             /\ ptySessions'[id].active
             /\ id \notin DOMAIN ptyLog
       /\ \A id \in DOMAIN ptyLog :
             /\ ~PtyActive(ptySessions, id) => ~PtyActive(ptySessions', id)
             /\ (ptyLog[id].open
                   /\ (id \notin DOMAIN ptyLog' \/ ~ptyLog'[id].open))
                => ~PtyActive(ptySessions', id)
             /\ (id \in DOMAIN ptyLog'
                   /\ ptyLog'[id].errored /\ ~ptyLog[id].errored)
                => ~PtyActive(ptySessions', id)
             /\ (ret'.op = "ptyClose" /\ ret'.ptyId = id)
                => id \notin DOMAIN ptySessions'
             /\ (~PtyActive(ptySessions, id) /\ id \in DOMAIN ptyLog')
                => /\ ptyLog'[id].written = ptyLog[id].written
                   /\ ptyLog'[id].window = ptyLog[id].window
                   /\ ptyLog'[id].total # ptyLog[id].total
                      => ptySessions' = ptySessions
                   /\ (ret'.op \in {"ptyWrite", "ptyResize"}
                         /\ ret'.ptyId = id)
                      => ret'.result \in {"Closed", "NotFound"}]_vars

\* a PTY whose channel reported an error is inactive; the channel has
\* delivered data since, which the entry did not take, and a ptyWrite has
\* just failed
C18_Witness ==
    \E id \in DOMAIN ptySessions :
        /\ ~ptySessions[id].active
        /\ ptyLog[id].errored /\ ptyLog[id].open
        /\ ptyLog[id].total > Len(ptyLog[id].received)
        /\ ptyLog[id].written # <<>>
        /\ ret.op = "ptyWrite" /\ ret.ptyId = id /\ ret.result = "Closed"

\* the last min(Len(bytes), n) bytes
ByteSuffix(bytes, n) ==
    SubSeq(bytes, (IF n < Len(bytes) THEN Len(bytes) - n ELSE 0) + 1,
           Len(bytes))

\* C19 (as claimed, and only for output that is well-formed UTF-8): the raw
\* buffer of every PTY session is at most maxBufferSize bytes long and
\* holds the most recent min(maxBufferSize, n) bytes of the n bytes its
\* channel delivered to it since the last clearing raw read.
C19_RawBufferWindow ==
    \A id \in DOMAIN ptySessions :
        WellFormed(ptyLog[id].received)
        => /\ Len(Utf8Bytes(ptySessions[id].rawBuffer))
                <= ptySessions[id].maxBufferSize
           /\ Utf8Bytes(ptySessions[id].rawBuffer)
                = ByteSuffix(ptyLog[id].received,
                             ptySessions[id].maxBufferSize)

\* text ends with tail
EndsWith(text, tail) ==
    /\ Len(tail) <= Len(text)
    /\ SubSeq(text, Len(text) - Len(tail) + 1, Len(text)) = tail

\* C20: raw reads are consumable exactly once.  A raw read returns the
\* whole raw buffer and leaves it empty unless clear is false, in which
\* case it leaves it as it was; a screen read (the default mode) leaves it
\* as it was whatever clear is; and the buffer of an entry changes in no
\* other way than by such a read or by a data event, after which it ends
\* what it held followed by the text of the new data, so that what a
\* clearing read returned is never returned again.
C20_RawReadOnce ==
    [][\A id \in DOMAIN ptySessions \cap DOMAIN ptySessions' :
          LET old == ptySessions[id].rawBuffer
              new == ptySessions'[id].rawBuffer
              read == ret'.op = "ptyRead" /\ ret'.ptyId = id
          IN /\ (read /\ ret'.mode = "raw")
                => /\ ret'.data = old
                   /\ new = IF ret'.clear = "false" THEN old ELSE <<>>
             /\ (read /\ ret'.mode # "raw") => new = old
             /\ (~read /\ new # old)
                => /\ ptyLog'[id].total > ptyLog[id].total
                   /\ \E k \in 1..Len(new) :
                         /\ Len(new) - k + 1
                              <= ptyLog'[id].total - ptyLog[id].total
                         /\ EndsWith(old, SubSeq(new, 1, k - 1))]_vars

\* a clearing raw read has just returned the data a PTY had buffered and
\* left its buffer empty
C20_Witness ==
    /\ ret.op = "ptyRead" /\ ret.result = "ok" /\ ret.mode = "raw"
    /\ ret.clear = ""
    /\ ret.data # <<>>
    /\ ret.ptyId \in DOMAIN ptySessions
    /\ ptySessions[ret.ptyId].rawBuffer = <<>>
    /\ ptyLog[ret.ptyId].total > 0

(* ----------------------------- port forwards --------------------------- *)
\* what callers pass to forwardRemote after the alias: remotePort,
\* localHost, localPort, remoteHost; two of them listen on the same remote
\* endpoint for different local ones
ForwardRemoteArgs ==
    { <<9000, "127.0.0.1", 3000, "127.0.0.1">>,
      <<9000, "127.0.0.1", 3001, "127.0.0.1">> }
\* what callers pass to forwardLocal after the alias: localPort, remoteHost,
\* remotePort, localHost
ForwardLocalArgs == { <<8080, "10.0.0.5", 80, "127.0.0.1">> }
\* destinations <<destIP, destPort>> of inbound tunnel connections
Destinations ==
    { <<"127.0.0.1", 9000>>, <<"127.0.0.1", 9001>>, <<"0.0.0.0", 9000>> }
\* identifiers callers pass to forwardClose: those generated so far and one
\* that never is
ForwardIds ==
    { generateForwardId(n, t) : n \in 0..forwardIdCounter, t \in 0..now }
    \cup {<<0, 0>>}

\* the aliases of the two sessions forwards are opened on
ForwardAliases == { generateAlias(c) : c \in Configs \cup {Peer} }

\* Forwards on two connected sessions: callers open remote forwards on both
\* and local forwards on one, list and close them and disconnect, while the
\* transports answer and deliver inbound tunnel connections.
NextForward ==
    \/ \E a \in ForwardLocalArgs :
          ForwardLocal(generateAlias(Peer), a[1], a[2], a[3], a[4])
    \/ \E id \in DOMAIN forwardStarts : ForwardListening(id)
    \/ \E alias \in ForwardAliases, a \in ForwardRemoteArgs :
          ForwardRemote(alias, a[1], a[2], a[3], a[4])
    \/ \E id \in DOMAIN forwardStarts : ForwardInFailed(id)
    \/ \E id \in DOMAIN forwardStarts : ForwardInDone(id)
    \/ \E c \in DOMAIN clients, info \in Destinations :
          TcpConnection(c, info)
    \/ \E id \in ForwardIds : ForwardClose(id)
    \/ ForwardList
    \/ \E alias \in ForwardAliases : Disconnect(alias)

SpecForward == InitParallel /\ [][NextForward]_vars

\* Local forwards on a connected session: callers open, list and close
\* them and disconnect, while the listening sockets accept connections and
\* the transport answers and closes.
NextForwardLocal ==
    \/ \E alias \in Aliases, a \in ForwardLocalArgs :
          ForwardLocal(alias, a[1], a[2], a[3], a[4])
    \/ \E id \in DOMAIN forwardStarts : ForwardListenError(id)
    \/ \E id \in DOMAIN forwardStarts : ForwardListening(id)
    \/ \E id \in ForwardIds : LocalConnection(id)
    \/ \E k \in DOMAIN fwdConns, ok \in BOOLEAN : ForwardOutDone(k, ok)
    \/ \E id \in ForwardIds : ForwardClose(id)
    \/ ForwardList
    \/ \E alias \in Aliases : Disconnect(alias)
    \/ \E i \in DOMAIN clients : Close(i)

SpecForwardLocal == InitConnected /\ [][NextForwardLocal]_vars

\* Remote forwards across the life of a connection: callers open, list and
\* close remote forwards while the session of their alias is disconnected,
\* reconnected and connected again.
NextForwardLife ==
    \/ \E alias \in Aliases :
          ForwardRemote(alias, 9000, "127.0.0.1", 3000, "127.0.0.1")
    \/ \E id \in DOMAIN forwardStarts : ForwardInDone(id)
    \/ \E id \in ForwardIds : ForwardClose(id)
    \/ ForwardList
    \/ \E config \in Configs : Connect(config)
    \/ \E alias \in Aliases : Reconnect(alias)
    \/ \E alias \in Aliases : Disconnect(alias)
    \/ \E i \in DOMAIN clients : Ready(i)

SpecForwardLife == InitConnected /\ [][NextForwardLife]_vars

\* listSessions(): a snapshot of registry ss
listSessions(ss) ==
    [a \in DOMAIN ss |->
        [host |-> ss[a].config.host, port |-> ss[a].config.port,
         username |-> ss[a].config.username,
         connected |-> isAlive(ss[a]),
         connectedAt |-> ss[a].connectedAt,
         lastUsedAt |-> ss[a].lastUsedAt,
         env |-> configEnv(ss[a].config)]]

ListSessions ==
    /\ ret' = [op |-> "listSessions", alias |-> "", result |-> "ok",
               via |-> "call", request |-> "none",
               list |-> listSessions(sessions)]
    /\ UNCHANGED <<sessions, conn, now, exec, sent, aux>>

\* The three lists: callers list sessions, PTYs and forwards while PTYs
\* receive data and end, a remote forward is opened and the transport
\* closes.
NextList ==
    \/ ListSessions
    \/ PtyList
    \/ ForwardList
    \/ \E alias \in Aliases : PtyStart(alias, DefaultCommand, NoPtyOptions)
    \/ \E id \in DOMAIN ptyStarts : PtyOpened(id)
    \/ \E id \in DOMAIN ptyLog : PtyData(id, <<"a">>)
    \/ \E id \in DOMAIN ptyLog : PtyStreamClose(id)
    \/ \E alias \in Aliases :
          ForwardRemote(alias, 9000, "127.0.0.1", 3000, "127.0.0.1")
    \/ \E id \in DOMAIN forwardStarts : ForwardInDone(id)
    \/ \E i \in DOMAIN clients : Close(i)

SpecList == InitConnected /\ [][NextList]_vars

\* A connected session whose caller only disconnects: the transports emit
\* their events, the reconnect timers fire and time passes, and nobody
\* calls connect or reconnect.
NextFinal ==
    \/ \E alias \in Aliases : Disconnect(alias)
    \/ \E alias \in Aliases : TimerFire(alias)
    \/ \E i \in DOMAIN clients : Ready(i)
    \/ \E i \in DOMAIN clients : Error(i)
    \/ \E i \in DOMAIN clients : Close(i)
    \/ Tick

SpecFinal == InitConnected /\ [][NextFinal]_vars

(* ---------------------------- ssh_quick_exec -------------------------- *)
\* `_quick_${Date.now()}`
tempAlias(t) == "_quick_" \o ToString(t)
QuickAliases == { tempAlias(t) : t \in 0..MaxClock }

\* the await of call q can resume: connect() returned a resolved promise, or
\* the transport it waits for has emitted ready or error
connectSettled(q) ==
    \/ q.client = 0
    \/ /\ q.client \notin DOMAIN pending
       /\ q.client \in DOMAIN clients
       /\ clients[q.client].state \in {"ready", "errored"}

\* a continuation of a quick-exec call is due
quickResumable ==
    \E k \in DOMAIN quick :
        \/ quick[k].phase = "connecting" /\ connectSettled(quick[k])
        \/ quick[k].phase = "executing"
              /\ quick[k].exec.promise.state # "pending"

\* case 'ssh_quick_exec' up to `await sessionManager.connect(...)`
QuickStart(host) ==
    /\ Len(quick) < MaxQuick
    /\ LET config == [alias |-> tempAlias(now), host |-> host,
                      username |-> "u", port |-> 22]
           idle == config.alias \in DOMAIN sessions
                     /\ isAlive(sessions[config.alias])
       IN /\ connectBody(sessions, clients, config, "ssh_quick_exec")
          /\ quick' = Append(quick,
                 [alias |-> config.alias, phase |-> "connecting",
                  client |-> IF idle THEN 0
                             ELSE NewClient(sessions, clients),
                  on |-> 0, exec |-> NoExec, result |-> "none"])
    /\ UNCHANGED <<timers, persisted, now, scheduled, exec, sent, tools, fwd>>

\* finally { sessionManager.disconnect(tempAlias) }, and the call settles
quickFinally(k, result) ==
    /\ IF quick[k].alias \in DOMAIN sessions
       THEN /\ clients' = clientEnd(clients, sessions[quick[k].alias].client)
            /\ sessions' = MapDelete(sessions, quick[k].alias)
            /\ persisted' = persistSessions(sessions')
       ELSE UNCHANGED <<sessions, clients, persisted>>
    /\ quick' = [quick EXCEPT ![k].phase = "settled", ![k].result = result]
    /\ ret' = [op |-> "ssh_quick_exec", alias |-> quick[k].alias,
               result |-> result, via |-> "call", request |-> "none"]

\* the continuation of `await sessionManager.connect(...)`: exec(tempAlias,
\* command) is issued on the session registered under the alias, or the
\* rejection passes through the finally block
QuickConnected(k) ==
    /\ quick[k].phase = "connecting"
    /\ connectSettled(quick[k])
    /\ LET q == quick[k] IN
       IF q.client # 0 /\ clients[q.client].state = "errored"
       THEN quickFinally(k, "ConnectFailed")
       ELSE IF getSessionResult(sessions, q.alias) # "ok"
       THEN quickFinally(k, getSessionResult(sessions, q.alias))
       ELSE /\ sessions' = getSession(sessions, q.alias)
            /\ quick' = [quick EXCEPT
                           ![k].phase = "executing",
                           ![k].on = sessions[q.alias].client,
                           ![k].exec = execStart(sessions[q.alias], q.alias,
                                                 DefaultCommand,
                                                 NoExecOptions)]
            /\ ret' = NoRet
            /\ UNCHANGED <<clients, persisted>>
    /\ UNCHANGED <<pending, timers, now, scheduled, exec, sent, tools, fwd>>

\* an event of the exec of call k
quickEvent(k, e) ==
    /\ quick[k].phase = "executing"
    /\ quick' = [quick EXCEPT ![k].exec = e]
    /\ ret' = NoRet
    /\ UNCHANGED <<sessions, conn, now, exec, sent, tools, fwd>>

QuickOpenFailed(k) ==
    /\ quick[k].exec.state = "opening"
    /\ quickEvent(k, onOpenFailed(quick[k].exec))

QuickOpened(k) ==
    /\ quick[k].exec.state = "opening"
    /\ quickEvent(k, onOpened(quick[k].exec))

QuickTimeout(k) ==
    /\ quick[k].exec.state # "idle"
    /\ timerArmed(quick[k].exec)
    /\ quickEvent(k, onTimeout(quick[k].exec))

QuickStreamClose(k, code) ==
    /\ quick[k].exec.state \in {"running", "timedout"}
    /\ quickEvent(k, onStreamClose(quick[k].exec, code))

\* the continuation of `await sessionManager.exec(...)`: the result is
\* kept or the rejection passes on, through the finally block
QuickSettle(k) ==
    /\ quick[k].phase = "executing"
    /\ quick[k].exec.promise.state # "pending"
    /\ quickFinally(k, IF quick[k].exec.promise.state = "resolved"
                       THEN "resolved" ELSE quick[k].exec.promise.error)
    /\ UNCHANGED <<pending, timers, now, scheduled, exec, sent, tools, fwd>>

\* a server on which no session was opened and whose reconnect timers may
\* be set for the aliases of quick-exec calls as well
InitQuick ==
    /\ sessions = <<>>
    /\ clients = <<>>
    /\ pending = <<>>
    /\ timers = [a \in Aliases \cup QuickAliases |-> 0]
    /\ persisted = <<>>
    /\ now = 0
    /\ scheduled = [a \in Aliases \cup QuickAliases |-> 0]
    /\ ret = NoRet
    /\ exec = NoExec
    /\ sent = [out |-> <<>>, err |-> <<>>, code |-> "none"]
    /\ InitAux

\* Quick-exec calls with the events of their transports and of their exec
\* invocations.  A continuation runs as a microtask, before any other
\* event is handled.
NextQuick ==
    \/ \E k \in DOMAIN quick : QuickConnected(k)
    \/ \E k \in DOMAIN quick : QuickSettle(k)
    \/ ~quickResumable /\ QuickStart("h1")
    \/ ~quickResumable /\ \E k \in DOMAIN quick : QuickOpenFailed(k)
    \/ ~quickResumable /\ \E k \in DOMAIN quick : QuickOpened(k)
    \/ ~quickResumable /\ \E k \in DOMAIN quick : QuickTimeout(k)
    \/ ~quickResumable /\ \E k \in DOMAIN quick : QuickStreamClose(k, 0)
    \/ ~quickResumable /\ \E i \in DOMAIN clients : Ready(i)
    \/ ~quickResumable /\ \E i \in DOMAIN clients : Error(i)
    \/ ~quickResumable /\ \E i \in DOMAIN clients : Close(i)
    \/ ~quickResumable /\ Tick

SpecQuick == InitQuick /\ [][NextQuick]_vars

\* loadPersistedSessions(): the parsed contents of the snapshot
LoadPersistedSessions ==
    /\ ret' = [op |-> "loadPersistedSessions", alias |-> "",
               result |-> "ok", via |-> "call", request |-> "none",
               list |-> persisted]
    /\ UNCHANGED <<sessions, conn, now, exec, sent, aux>>

\* configurations that carry authentication material and an environment
SecretConfigs ==
    { [alias |-> "srv", host |-> "h1", username |-> "u", port |-> 22,
       password |-> "pw"],
      [alias |-> "srv", host |-> "h2", username |-> "u", port |-> 22,
       privateKey |-> "key", passphrase |-> "pp",
       env |-> << <<<<"A">>, <<"v">>>> >>] }

\* The snapshot: callers connect with secrets, disconnect and load the
\* snapshot while transports become ready, fail and close and time passes.
NextPersist ==
    \/ \E config \in SecretConfigs : Connect(config)
    \/ \E alias \in Aliases : Disconnect(alias)
    \/ \E i \in DOMAIN clients : Ready(i)
    \/ \E i \in DOMAIN clients : Error(i)
    \/ \E i \in DOMAIN clients : Close(i)
    \/ LoadPersistedSessions
    \/ Tick

SpecPersist == Init /\ [][NextPersist]_vars

(* ======================= properties of the PTY emulator ================ *)
\* the text of a sequence of data chunks, each decoded on its own
RECURSIVE TextOf(_)
TextOf(chunks) ==
    IF chunks = <<>> THEN <<>>
    ELSE toStringUtf8(Head(chunks)) \o TextOf(Tail(chunks))

\* C21: the emulator sees the unclipped stream.  In every state the text
\* written to the emulator of a PTY session is the text of the chunks its
\* channel delivered while it was active, each once and in delivery order,
\* whatever the raw-buffer cap is and whatever was read or cleared: the raw
\* buffer may hold less than the emulator consumed, the emulator never
\* less than was delivered.
C21_EmulatorUnclipped ==
    \A id \in DOMAIN ptySessions :
        /\ ptySessions[id].terminal = TextOf(ptyLog[id].chunks)
        /\ Len(ptySessions[id].rawBuffer) <= Len(ptySessions[id].terminal)

\* a PTY with a cap of one character has consumed two chunks, its raw
\* buffer was cut and then emptied by a clearing raw read, and its emulator
\* holds the text of both chunks
C21_Witness ==
    \E id \in DOMAIN ptySessions :
        /\ ptySessions[id].maxBufferSize = 1
        /\ Len(ptyLog[id].chunks) = 2
        /\ ptySessions[id].rawBuffer = <<>>
        /\ Len(ptySessions[id].terminal) = 2
        /\ ret.op = "ptyRead" /\ ret.mode = "raw" /\ ret.data # <<>>

\* C22: no half-initialized PTY is observable: every id of the PTY registry
\* has its channel with the data, close and error handlers attached; an id
\* enters the registry only in the callback of its own ptyStart, active,
\* with an empty raw buffer and an empty emulator, in the very step that
\* resolves the call with that id; and a ptyStart whose channel fails to
\* open registers nothing.
C22_NoHalfInitializedPty ==
    [][/\ DOMAIN ptySessions' \subseteq DOMAIN ptyLog'
       /\ \A id \in DOMAIN ptySessions' \ DOMAIN ptySessions :
             /\ id \in DOMAIN ptyStarts
             /\ ptySessions'[id].active
             /\ ptySessions'[id].rawBuffer = <<>>
             /\ ptySessions'[id].terminal = <<>>
             /\ ptyLog'[id] = NewChannel
             /\ ret' = [op |-> "ptyStart", alias |-> ptyStarts[id].alias,
                        result |-> "resolved", via |-> "callback",
                        request |-> "none", ptyId |-> id]
       /\ (ret'.op = "ptyStart" /\ ret'.result = "resolved")
             => ret'.ptyId \in DOMAIN ptySessions' \ DOMAIN ptySessions
       /\ (ret'.op = "ptyStart" /\ ret'.result # "resolved")
             => /\ ptySessions' = ptySessions
                /\ ptyLog' = ptyLog]_vars

C22_Witness ==
    /\ ret.op = "ptyStart" /\ ret.result = "resolved"
    /\ ret.ptyId \in DOMAIN ptySessions
    /\ ptySessions[ret.ptyId].active
    /\ ptySessions[ret.ptyId].rawBuffer = <<>>
    /\ ptyLog[ret.ptyId] = NewChannel

\* C23: ptyClose of a registered id, active or not, removes the entry and
\* returns true; ptyClose of an unknown id returns false and changes
\* nothing (so a second ptyClose of an id returns false); and an entry
\* leaves the registry only in a ptyClose or ptyCloseAll step, never when
\* its channel closes or fails, when time passes, or when the connection of
\* its alias is disconnected or lost.
C23_OnlyPtyCloseRemoves ==
    [][/\ ret'.op = "ptyClose" =>
             IF ret'.ptyId \in DOMAIN ptySessions
             THEN /\ ret'.result = "true"
                  /\ ptySessions' = MapDelete(ptySessions, ret'.ptyId)
             ELSE /\ ret'.result = "false"
                  /\ ptySessions' = ptySessions
                  /\ ptyLog' = ptyLog
       /\ ret'.op = "ptyCloseAll" =>
             /\ ptySessions' = <<>>
             /\ ret'.count = Cardinality(DOMAIN ptySessions)
       /\ ret'.op \notin {"ptyClose", "ptyCloseAll"} =>
             DOMAIN ptySessions \subseteq DOMAIN ptySessions']_vars

C23_Witness ==
    /\ ret.op = "ptyClose" /\ ret.result = "true"
    /\ ret.ptyId \notin DOMAIN ptySessions
    /\ ret.ptyId \in DOMAIN ptyLog /\ ptyLog[ret.ptyId].errored
    /\ "srv" \notin DOMAIN sessions

\* the window of the remote pseudo-terminal of PTY id: the one its ptyStart
\* asked for until a setWindow has changed it
RemoteWindow(log, id) ==
    IF log[id].window = <<>> THEN <<24, 80>> ELSE log[id].window

\* C24: ptyResize on an active PTY sets the remote window and the emulator
\* to the requested rows and columns and records them, and from then on
\* ptyRead and ptyList report them: in every state the remote window, the
\* emulator and the recorded rows and columns of an entry agree, and reads
\* and lists hand back exactly these; ptyResize on an unknown or inactive
\* PTY fails and changes neither entry nor window.
C24_ResizeBoth ==
    [][/\ \A id \in DOMAIN ptySessions' :
             /\ RemoteWindow(ptyLog', id) = ptySessions'[id].geometry
             /\ RemoteWindow(ptyLog', id) =
                  <<ptySessions'[id].rows, ptySessions'[id].cols>>
       /\ ret'.op = "ptyResize" =>
             IF /\ ret'.ptyId \in DOMAIN ptySessions
                /\ ptySessions[ret'.ptyId].active
             THEN /\ ret'.result = "true"
                  /\ RemoteWindow(ptyLog', ret'.ptyId) = <<ret'.rows, ret'.cols>>
             ELSE /\ ret'.result \in {"NotFound", "Closed"}
                  /\ ptySessions' = ptySessions
                  /\ ptyLog' = ptyLog
       /\ (ret'.op = "ptyRead" /\ ret'.result = "ok") =>
             /\ <<ret'.rows, ret'.cols>> = RemoteWindow(ptyLog, ret'.ptyId)
             /\ ret'.mode = "screen" =>
                   <<ret'.data.rows, ret'.data.cols>> =
                       RemoteWindow(ptyLog, ret'.ptyId)
       /\ ret'.op = "ptyList" =>
             \A id \in DOMAIN ret'.list :
                 <<ret'.list[id].rows, ret'.list[id].cols>> =
                     RemoteWindow(ptyLog, id)]_vars

C24_Witness ==
    /\ ret.op = "ptyRead" /\ ret.result = "ok" /\ ret.mode = "screen"
    /\ <<ret.rows, ret.cols>> = <<40, 120>>
    /\ <<ret.data.rows, ret.data.cols>> = <<40, 120>>
    /\ ret.data.text # <<>>
    /\ ptyLog[ret.ptyId].window = <<40, 120>>

(* ========================= properties of port forwards ================== *)
\* C25: a session's transport carries at most one inbound-tunnel handler,
\* whatever forwardRemote and forwardClose calls were made and however
\* their callbacks interleave; a forwardRemote that succeeds appends
\* exactly one active remote forward and leaves one dispatcher installed
\* on the transport of the session it looked up; a forwardRemote whose
\* remote listen is rejected leaves registry and dispatchers as they were.
C25_DispatcherAtMostOnce ==
    [][/\ \A c \in DOMAIN tcp' : Len(tcp'[c].listeners) <= 1
       /\ (ret'.op = "forwardRemote" /\ ret'.result = "resolved") =>
             /\ ret'.forwardId \in DOMAIN forwardStarts
             /\ Len(forwardSessions') = Len(forwardSessions) + 1
             /\ SubSeq(forwardSessions', 1, Len(forwardSessions))
                  = forwardSessions
             /\ LET f == forwardSessions'[Len(forwardSessions')]
                    c == forwardStarts[ret'.forwardId].client
                IN /\ f.id = ret'.forwardId /\ f.type = "remote"
                   /\ f.active /\ f.alias = ret'.alias
                   /\ ForwardAt(forwardSessions, f.id) = {}
                   /\ c \in DOMAIN tcp'
                   /\ tcp'[c].tcpDispatcher = <<f.alias>>
                   /\ tcp'[c].listeners = <<f.alias>>
       /\ (ret'.op = "forwardRemote" /\ ret'.result = "ForwardBindFailure")
             => /\ forwardSessions' = forwardSessions
                /\ tcp' = tcp]_vars

C25_Witness ==
    /\ ret.op = "forwardRemote" /\ ret.result = "resolved"
    /\ Len(forwardSessions) = 2
    /\ forwardSessions[1].type = "remote"
    /\ forwardSessions[2].type = "remote"
    /\ forwardSessions[1].alias = forwardSessions[2].alias
    /\ \E c \in DOMAIN tcp : tcp[c].listeners = <<forwardSessions[1].alias>>

\* the active remote forwards registry fs holds for alias
RemoteForwards(fs, alias) ==
    { i \in DOMAIN fs :
        fs[i].type = "remote" /\ fs[i].alias = alias /\ fs[i].active }

\* C26: the current session of an alias has a dispatcher installed exactly
\* when at least one active remote forward is registered for that alias.
C26_DispatcherIffRemoteForward ==
    \A a \in DOMAIN sessions :
        (TcpOf(sessions[a].client).tcpDispatcher # <<>>)
        <=> (RemoteForwards(forwardSessions, a) # {})

\* the places of registry fs a connection to info on a session of alias may
\* be routed to: its active remote forwards listening on info
Routable(fs, alias, info) ==
    { i \in RemoteForwards(fs, alias) :
        <<fs[i].remoteHost, fs[i].remotePort>> = info }

\* C27: an inbound tunnel connection on a session leads to exactly one
\* accept or reject; it is accepted exactly when an active remote forward
\* of that session's alias listens on its destination, and is then
\* connected to the local endpoint of the first such forward in
\* registration order; otherwise it is rejected and connected nowhere.
C27_DispatcherRouting ==
    [][ret'.op = "tcp connection" =>
         /\ Len(ret'.outcomes) = 1
         /\ LET o == ret'.outcomes[1]
                to == Routable(forwardSessions, clients[ret'.client].alias,
                               ret'.info)
            IN /\ o.result \in {"accepted", "rejected"}
               /\ o.result = "accepted" <=> to # {}
               /\ o.result = "rejected" => o.connect = <<>>
               /\ o.result = "accepted" =>
                     \E i \in to :
                         /\ \A j \in to : i <= j
                         /\ o.connect = <<forwardSessions[i].localHost,
                                          forwardSessions[i].localPort>>]_vars

C27_Witness ==
    /\ ret.op = "tcp connection"
    /\ ret.outcomes[1].result = "accepted"
    /\ Len(forwardSessions) = 2
    /\ forwardSessions[1].type = "remote"
    /\ forwardSessions[1].alias # ret.alias
    /\ <<forwardSessions[1].remoteHost, forwardSessions[1].remotePort>>
         = ret.info
    /\ forwardSessions[2].alias = ret.alias
    /\ ret.outcomes[1].connect = <<forwardSessions[2].localHost,
                                   forwardSessions[2].localPort>>
    /\ forwardSessions[1].localPort # forwardSessions[2].localPort

\* C28: forwardClose of a registered id deletes exactly that entry and
\* returns true, after closing the listening socket of a local forward or
\* asking the session of a remote forward, if there still is one, to cancel
\* the remote listen; forwardClose of an id that is not registered returns
\* false and changes nothing, so a second forwardClose of an id returns
\* false.
C28_ForwardCloseDeletes ==
    [][ret'.op = "forwardClose" =>
         IF ForwardAt(forwardSessions, ret'.forwardId) # {}
         THEN /\ ret'.result = "true"
              /\ forwardSessions' =
                   SelectSeq(forwardSessions,
                             LAMBDA f : f.id # ret'.forwardId)
              /\ Len(forwardSessions') = Len(forwardSessions) - 1
              /\ \A i \in ForwardAt(forwardSessions, ret'.forwardId) :
                    ret'.request =
                        IF forwardSessions[i].type = "local"
                        THEN "server.close"
                        ELSE IF forwardSessions[i].alias \in DOMAIN sessions
                        THEN "unforwardIn" ELSE "none"
         ELSE /\ ret'.result = "false"
              /\ UNCHANGED <<sessions, conn, now, exec, sent, aux>>]_vars

C28_Witness ==
    /\ ret.op = "forwardClose" /\ ret.result = "true"
    /\ ret.request = "none"
    /\ ret.alias \notin DOMAIN sessions
    /\ ForwardAt(forwardSessions, ret.forwardId) = {}
    /\ Len(forwardSessions) = 1

\* the session of alias a is torn down by a step: its entry is removed or
\* replaced by one with another transport
TornDown(a) ==
    /\ a \in DOMAIN sessions
    /\ \/ a \notin DOMAIN sessions'
       \/ sessions'[a].client # sessions[a].client

\* C29: once the session of an alias has been torn down, by disconnect or
\* by a reconnect that replaces its entry, forwardList shows no active
\* remote forward of that alias.
C29_NoRemoteForwardAfterTeardown ==
    [][\A a \in DOMAIN sessions :
          TornDown(a) =>
              RemoteForwards(forwardList(forwardSessions'), a) = {}]_vars

\* C30: a local forward enters the registry only in the listen callback of
\* its own forwardLocal, which then resolves with its id; a failed listen
\* rejects the call and leaves the registry as it was; every connection
\* its socket accepts makes exactly one direct-channel request, to the
\* forward's (remoteHost, remotePort), and from waiting for the answer it
\* only ever becomes spliced or closed, for good; and the forward leaves
\* the registry only by forwardClose.
C30_LocalForward ==
    [][/\ \A i \in DOMAIN forwardSessions' :
             ForwardAt(forwardSessions, forwardSessions'[i].id) = {} =>
                 /\ forwardSessions'[i].id \in DOMAIN forwardStarts
                 /\ ret' = ForwardRet("forwardLocal",
                                      forwardSessions'[i].alias,
                                      forwardSessions'[i].id, "resolved",
                                      "callback", "none")
       /\ (ret'.op = "forwardLocal" /\ ret'.result = "resolved") =>
             \E i \in ForwardAt(forwardSessions', ret'.forwardId) :
                 LET f == forwardSessions'[i]
                     start == forwardStarts[ret'.forwardId]
                 IN /\ f.type = "local" /\ f.active
                    /\ <<f.alias, f.localHost, f.localPort, f.remoteHost,
                         f.remotePort>>
                        = <<start.alias, start.localHost, start.localPort,
                            start.remoteHost, start.remotePort>>
       /\ (ret'.op = "forwardLocal" /\ ret'.result # "resolved") =>
             forwardSessions' = forwardSessions
       /\ \A i \in DOMAIN forwardSessions :
             ForwardAt(forwardSessions', forwardSessions[i].id) = {} =>
                 ret'.op = "forwardClose"
       /\ \A k \in DOMAIN fwdConns' :
             /\ Len(fwdConns'[k].requests) = 1
             /\ IF k \in DOMAIN fwdConns
                THEN /\ fwdConns'[k].requests = fwdConns[k].requests
                     /\ \/ fwdConns'[k].state = fwdConns[k].state
                        \/ /\ fwdConns[k].state = "requested"
                           /\ fwdConns'[k].state \in {"spliced", "closed"}
                ELSE /\ fwdConns'[k].state = "requested"
                     /\ \E i \in ForwardAt(forwardSessions,
                                           fwdConns'[k].forward) :
                           /\ forwardSessions[i].type = "local"
                           /\ fwdConns'[k].requests[1] =
                                <<forwardSessions[i].remoteHost,
                                  forwardSessions[i].remotePort>>]_vars

C30_Witness ==
    \E k \in DOMAIN fwdConns :
        /\ fwdConns[k].state = "spliced"
        /\ fwdConns[k].requests = << <<"10.0.0.5", 80>> >>
        /\ ForwardAt(forwardSessions, fwdConns[k].forward) # {}
        /\ forwardIdCounter = 2
        /\ Len(forwardSessions) = 1

(* ========================= properties of the lists ===================== *)
\* C31: listSessions, ptyList and forwardList are snapshots: a step of one
\* of them changes no registry, no field of an entry, no timer, no
\* dispatcher and nothing else but what the caller gets back, which shows
\* the registry as it is; ptyList reports the length of each raw buffer.
C31_ListsArePure ==
    [][ret'.op \in {"listSessions", "ptyList", "forwardList"} =>
         /\ UNCHANGED <<sessions, conn, now, exec, sent, aux>>
         /\ ret'.op = "listSessions" =>
               /\ DOMAIN ret'.list = DOMAIN sessions
               /\ \A a \in DOMAIN sessions :
                     /\ ret'.list[a].connected = sessions[a].connected
                     /\ ret'.list[a].lastUsedAt = sessions[a].lastUsedAt
         /\ ret'.op = "ptyList" =>
               /\ DOMAIN ret'.list = DOMAIN ptySessions
               /\ \A id \in DOMAIN ptySessions :
                     /\ ret'.list[id].bufferSize =
                          Len(ptySessions[id].rawBuffer)
                     /\ ret'.list[id].active = ptySessions[id].active
                     /\ ret'.list[id].lastReadAt =
                          ptySessions[id].lastReadAt
         /\ ret'.op = "forwardList" =>
               Len(ret'.list) = Len(forwardSessions)]_vars

C31_Witness ==
    /\ ret.op = "ptyList"
    /\ \E id \in DOMAIN ret.list :
          /\ ret.list[id].bufferSize = 2
          /\ Len(ptySessions[id].rawBuffer) = 2
          /\ ~ret.list[id].active
    /\ forwardSessions # <<>> /\ tcp # <<>>
    /\ \E a \in DOMAIN sessions : ~sessions[a].connected /\ timers[a] > 0

\* a transport becomes ready in this step
BecomesReady ==
    \E i \in DOMAIN clients :
        /\ clients[i].state = "connecting"
        /\ i \in DOMAIN clients' /\ clients'[i].state = "ready"

\* snapshot p has a record for each alias of registry ss and for nothing
\* else, and each record holds the host, port, user name, connect time and
\* environment of its session and no other field
Tracks(p, ss) ==
    /\ DOMAIN p = DOMAIN ss
    /\ \A a \in DOMAIN p :
          /\ DOMAIN p[a] = {"host", "port", "username", "connectedAt", "env"}
          /\ p[a].host = ss[a].config.host
          /\ p[a].port = ss[a].config.port
          /\ p[a].username = ss[a].config.username
          /\ p[a].connectedAt = ss[a].connectedAt
          /\ p[a].env = configEnv(ss[a].config)

\* C32: after every ready and every disconnect that removed an entry the
\* snapshot has exactly the aliases of the registry, each with host, port,
\* user name, connect time and environment and never a password, private
\* key or passphrase; the snapshot is written by no other step; and
\* loading it hands back its contents, creates no entry and opens no
\* transport.
C32_SnapshotTracksRegistry ==
    [][/\ (BecomesReady \/ (ret'.op = "disconnect" /\ ret'.result = "true"))
             => Tracks(persisted', sessions')
       /\ persisted' # persisted =>
             (BecomesReady \/ (ret'.op = "disconnect" /\ ret'.result = "true"))
       /\ ret'.op = "loadPersistedSessions" =>
             /\ ret'.list = persisted
             /\ UNCHANGED <<sessions, conn, now, exec, sent, aux>>]_vars

C32_Witness ==
    /\ ret.op = "loadPersistedSessions"
    /\ "srv" \in DOMAIN ret.list
    /\ ret.list["srv"].env # <<>>
    /\ "passphrase" \in DOMAIN sessions["srv"].config
    /\ ~sessions["srv"].connected

(* ======================= properties of the life cycle ================== *)
\* C33: every connect call settles, once: a suspended call leaves the set
\* of suspended calls only in the step in which its own transport emits
\* ready or error, which resolves or rejects it.
C33_EveryConnectSettles ==
    [][\A i \in DOMAIN pending :
          i \notin DOMAIN pending' =>
             /\ clients[i].state = "connecting"
             /\ i \in DOMAIN clients'
             /\ clients'[i].state \in {"ready", "errored"}]_vars

\* the transport call q opened has been ended, has failed or has closed
QuickTransportEnded(cs, q) ==
    \/ q.client = 0
    \/ q.client \notin DOMAIN cs
    \/ cs[q.client].state \in {"ended", "errored"}

\* C34: ssh_quick_exec is one-shot: in the step in which a quick-exec call
\* settles, the registry has no entry for its temporary alias, the
\* transport it opened has been ended, and no transport on which another
\* call is executing is ended; and two calls in flight never execute on
\* the same transport.
C34_QuickExecOneShot ==
    [][/\ \A k \in DOMAIN quick :
             (quick[k].phase # "settled" /\ quick'[k].phase = "settled") =>
                /\ quick[k].alias \notin DOMAIN sessions'
                /\ QuickTransportEnded(clients', quick'[k])
                /\ \A j \in DOMAIN quick \ {k} :
                      (quick[j].phase = "executing"
                         /\ quick[j].on \in DOMAIN clients) =>
                            clients'[quick[j].on] = clients[quick[j].on]
       /\ \A j, k \in DOMAIN quick' :
             (j # k /\ quick'[j].phase = "executing"
                   /\ quick'[k].phase = "executing") =>
                quick'[j].on # quick'[k].on]_vars

\* C35: an explicit disconnect is final: while no caller invokes connect or
\* reconnect, an alias that is absent from the registry stays absent and
\* no transport is opened for it, whatever timers fire and whatever events
\* the transports emit.
C35_DisconnectIsFinal ==
    [][\A a \in Aliases :
          a \notin DOMAIN sessions =>
             /\ a \notin DOMAIN sessions'
             /\ \A i \in DOMAIN clients' :
                   clients'[i].alias = a => i \in DOMAIN clients]_vars

\* C36: the connected flag of an entry reflects only the entry's own
\* transport: while the transport stored in an entry has emitted ready and
\* neither error nor close, and has not been ended, the entry is connected.
C36_ConnectedFollowsOwnTransport ==
    \A a \in DOMAIN sessions :
        ( /\ sessions[a].client \in DOMAIN clients
          /\ clients[sessions[a].client].state = "ready" )
        => sessions[a].connected

\* C37: an automatic reconnect never tears down a healthy connection: when
\* a reconnect timer fires for an alias whose entry is connected over a
\* transport that is up, the transport is still up and the entry still
\* connected after the timer's reconnect.
C37_TimerSparesHealthy ==
    [][\A a \in Aliases :
          ( /\ timers'[a] < timers[a]
            /\ a \in DOMAIN sessions
            /\ sessions[a].connected
            /\ sessions[a].client \in DOMAIN clients
            /\ clients[sessions[a].client].state = "ready" )
          => /\ sessions'[a].connected
             /\ sessions'[a].client = sessions[a].client
             /\ clients'[sessions[a].client].state = "ready"]_vars

\* the transports of alias a that are connecting or connected
Live(a) ==
    { i \in DOMAIN clients :
         clients[i].alias = a /\ clients[i].state \in {"connecting", "ready"} }

\* C38: no transport is leaked: for every alias at most one transport is
\* connecting or connected, and every transport that has emitted ready and
\* has not been ended or closed is the one stored in the entry of its alias.
C38_NoTransportLeaked ==
    /\ \A a \in Aliases : Cardinality(Live(a)) <= 1
    /\ \A i \in DOMAIN clients :
          clients[i].state = "ready"
          => /\ clients[i].alias \in DOMAIN sessions
             /\ sessions[clients[i].alias].client = i

C40_DisposedEmulatorUnused ==
    \A id \in DOMAIN ptyLog : ptyLog[id].disposedWrites = <<>>

====
